---- MODULE Spec2Model ----
(***************************************************************************)
(* Browser coordinator: the CDP reverse proxy (CdpProxy, cdp-proxy.ts) and *)
(* the controller that owns it (CoordinatorServer, coordinator-server.ts), *)
(* with the browser launcher and the rendezvous state file they call.      *)
(*                                                                         *)
(* Execution model.  The program runs on the Node.js event loop: every     *)
(* handler runs to completion, and the continuations of one settled        *)
(* promise run as microtasks before the next I/O event is delivered.  An   *)
(* action below is therefore one event-loop turn: an I/O event (a socket   *)
(* connecting, a tool call arriving, a child process becoming ready) and   *)
(* every continuation that that event releases.  An `await` on I/O ends    *)
(* the action; the rest of the async function is a later action.  The      *)
(* turn ends with the loop's close-callbacks phase, in which the sockets   *)
(* destroyed during the turn emit 'close'.                                 *)
(***************************************************************************)
EXTENDS Integers, FiniteSets, Sequences, TLC

\* ---------------------------------------------------------------- bounds
MaxConn == 2        \* client connections that arrive at the proxy
MaxLaunch == 2      \* calls of launchBrowserInternal over the run
MaxBytes == 2       \* bytes written in each direction of a pair
MaxChunks == 2      \* 'data' events of one IPC request
MaxSock == 3        \* socket files in the data directory
MaxFetch == 2       \* coordinator_fetch calls
MaxPolls == 3       \* 250 ms sleeps of wrap before it gives up

\* ------------------------------------------------------------- constants
NoPort == 0         \* null port (backendPort === null, cdpPort === null)
NoLaunch == 0       \* null launch / browser instance
NoCode == -1        \* null exit code ('exit' of a signalled child), no exit yet
ProxyPort == 41837  \* port the OS assigns to listen(0)
EditorPort == 9222  \* CDP port advertised by the editor, when it has one
BasePort == 52100   \* getFreePort() results are BasePort + launch number
Pid == 4242         \* process.pid of the controller

Conns == 1..MaxConn
Launches == 1..MaxLaunch
Sockets == {"c", "b"} \X Conns      \* <<"c",i>> client socket, <<"b",i>> backend socket
ClientSock(i) == <<"c", i>>
BackendSock(i) == <<"b", i>>

VARIABLES
  \* CoordinatorServer
  initPc,           \* position of initialize(): "start" | "detected" | "done"
  vsCodeEnv,        \* [ipc: BOOLEAN, cdpPort: port or NoPort]
  browserInstance,  \* launch number of the held BrowserInstance, or NoLaunch
  instanceOpts,     \* options the held BrowserInstance was launched with, or NoOpts
  shutPc,           \* position of shutdown(): "no" | "closing" | "done"
  \* CdpProxy
  server,           \* "null" | "listening" | "closing" | "closed"
  serverAddr,       \* port of the listening OS socket (server.address().port)
  listenPort,
  backendPort,
  connections,      \* set of tracked sockets
  lazyLaunch,       \* TRUE when a callback is registered
  launching,
  launchPromise,    \* launch number the pending lazy promise resolves with
  \* sockets and connection handlers
  sock,             \* socket -> "none" | "open" | "closed"
  target,           \* connection -> remotePort of its backend socket (NoPort once closed)
  awaits,           \* connection -> launch its handleConnection awaits, or NoLaunch
  \* launcher
  launch,           \* launch number -> [origin, phase, opts] of launchBrowserInternal
  proc,             \* launch number -> [st, killed] of the spawned process
  \* rendezvous file
  stateFile,        \* [exists, port, pid]: state.json and the record in it
  \* history
  trace,            \* calls made by initialize() and shutdown(), in order
  swapPort,         \* port of the last setBackend+closeConnections, NoPort once the backend is changed by another call
  last,             \* the last handler, when it was the start, success or failure of
                    \* a control operation or of a lazy launch, else "other":
                    \* [op, arg, open = the sockets it found open, opened or destroyed,
                    \*  opts = the options of the instance a restart found]
  \* parts seen on their own
  lb,               \* launch number -> launchBrowser()/stopBrowser():
                    \* [pc, timeout, dir, st, killed, killTimer, sent]
  pipe,             \* one connection pair and the bytes on it:
                    \* [pc, early, up, down], up/down = [sent, buf, recv]
  file,             \* state.json as characters, with the last call on it and
                    \* what the last readState() returned
  nav,              \* one coordinator_navigate call and its IPC requests
  disc,             \* one discoverExtensionSocket call
  srv,              \* one connection to the extension's IPC server
  fetch,            \* coordinator_fetch calls, one at a time
  wrap,             \* the wrap subcommand: [pc, polls, port, child, fwd, exit]
  eng               \* the controller that knows the browser's engine:
                    \* [pc, cfg, installed, held, backend, lazy, tool, n]

vars == <<initPc, vsCodeEnv, browserInstance, instanceOpts, shutPc, server,
          serverAddr, listenPort, backendPort, connections, lazyLaunch,
          launching, launchPromise, sock, target, awaits, launch, proc,
          stateFile, trace, swapPort, last, lb, pipe, file, nav, disc, srv,
          fetch, wrap, eng>>

coordVars == <<initPc, vsCodeEnv, browserInstance, instanceOpts, shutPc>>
proxyVars == <<server, serverAddr, listenPort, backendPort, connections,
               lazyLaunch, launching, launchPromise>>
sockVars == <<sock, target, awaits>>

\* the parts seen on their own, which the proxy's and the controller's
\* handlers above leave alone
sideVars == <<lb, pipe, file, nav, disc, srv, fetch, wrap, eng>>

\* ----------------------------------------------------------- helpers
IsOpen(s) == sock[s] = "open"
OpenSockets == {s \in Sockets : IsOpen(s)}
PortOf(k) == BasePort + k
Used == {k \in Launches : launch[k].phase # "none"}
NextLaunch == Cardinality(Used) + 1
CanLaunch == Cardinality(Used) < MaxLaunch
Pending(k) == launch[k].phase \in {"port", "spawned"}
Absent == [exists |-> FALSE, port |-> NoPort, pid |-> NoPort]

\* LauncherOptions, the two fields a tool call can set; "undef" is undefined
NoOpts == [browserType |-> "none", headless |-> "none"]
ConfigOpts == [browserType |-> "undef", headless |-> "undef"]   \* this.opts.browser
Options == {ConfigOpts, [browserType |-> "firefox", headless |-> "false"]}
Op(name, arg, open) == [op |-> name, arg |-> arg, open |-> open, opts |-> NoOpts]

\* launchBrowser() not yet called for a launch number
LbIdle == [pc |-> "idle", timeout |-> "unset", dir |-> "none", st |-> "none",
           killed |-> FALSE, killTimer |-> "unset", sent |-> {}]

\* socket.destroy(): an open socket becomes destroyed ('close' not yet emitted)
Destroy(st) == IF st = "open" THEN "destroyed" ELSE st

\* close-callbacks phase, the end of the loop iteration in which destroy()
\* was called: every destroyed socket emits 'close', whose handler is
\* connections.delete(socket).  sk, cs and tg are the sockets, the tracked
\* set and the backend targets as the iteration's handlers left them.
CloseEvents(sk, cs, tg) ==
  /\ sock' = [s \in Sockets |-> IF sk[s] = "destroyed" THEN "closed" ELSE sk[s]]
  /\ connections' = {s \in cs : sk[s] # "destroyed"}
  /\ target' = [i \in Conns |->
                  IF sk[BackendSock(i)] = "destroyed" THEN NoPort ELSE tg[i]]

\* a stream of one pair: the bytes written into it, those read from the
\* source socket and not yet written to the destination, those delivered
NoBytes == [sent |-> <<>>, buf |-> <<>>, recv |-> <<>>]
PipeIdle == [pc |-> "idle", early |-> 0, up |-> NoBytes, down |-> NoBytes]
ByteVals == {0, 1}

TypeOK ==
  /\ initPc \in {"start", "detected", "done"}
  /\ vsCodeEnv \in [ipc : BOOLEAN, cdpPort : {NoPort, EditorPort}]
  /\ browserInstance \in {NoLaunch} \cup Launches
  /\ instanceOpts \in {NoOpts} \cup Options
  /\ (instanceOpts = NoOpts) = (browserInstance = NoLaunch)
  /\ shutPc \in {"no", "closing", "done"}
  /\ server \in {"null", "listening", "closing", "closed"}
  /\ backendPort \in {NoPort, EditorPort} \cup {PortOf(k) : k \in Launches}
  /\ connections \subseteq Sockets
  /\ lazyLaunch \in BOOLEAN
  /\ launching \in BOOLEAN
  /\ launchPromise \in {NoLaunch} \cup Launches
  /\ sock \in [Sockets -> {"none", "open", "closed"}]
  /\ awaits \in [Conns -> {NoLaunch} \cup Launches]

Init ==
  /\ initPc = "start"
  /\ vsCodeEnv = [ipc |-> FALSE, cdpPort |-> NoPort]
  /\ browserInstance = NoLaunch
  /\ instanceOpts = NoOpts
  /\ shutPc = "no"
  /\ server = "null"
  /\ serverAddr = NoPort
  /\ listenPort = NoPort
  /\ backendPort = NoPort
  /\ connections = {}
  /\ lazyLaunch = FALSE
  /\ launching = FALSE
  /\ launchPromise = NoLaunch
  /\ sock = [s \in Sockets |-> "none"]
  /\ target = [i \in Conns |-> NoPort]
  /\ awaits = [i \in Conns |-> NoLaunch]
  /\ launch = [k \in Launches |-> [origin |-> "none", phase |-> "none", opts |-> NoOpts]]
  /\ proc = [k \in Launches |-> [st |-> "none", killed |-> FALSE]]
  /\ lb = [k \in Launches |-> LbIdle]
  /\ pipe = PipeIdle
  /\ eng = [pc |-> "idle", cfg |-> "undef", installed |-> {},
            held |-> [engine |-> "none", n |-> NoLaunch], backend |-> NoPort,
            lazy |-> [n |-> NoLaunch, type |-> "undef"],
            tool |-> [n |-> NoLaunch, type |-> "undef"], n |-> 0]
  /\ wrap = [pc |-> "idle", polls |-> 0, port |-> NoPort,
             child |-> [st |-> "none", code |-> NoCode, signal |-> "none"],
             fwd |-> {}, exit |-> NoCode]
  /\ fetch = [n |-> 0, impl |-> "none", pc |-> "idle", stage |-> 0,
              exit |-> <<0, "none">>, tab |-> "none", fc |-> "none",
              main |-> "none", timer |-> "unset"]
  /\ srv = [conn |-> "none", chunks |-> <<>>, handled |-> FALSE, out |-> <<>>,
            url |-> "none", selecting |-> FALSE]
  /\ disc = [pc |-> "idle", cwd |-> FALSE, entries |-> <<>>, i |-> 0,
             probes |-> <<>>, unlinked |-> {}, ret |-> 0, live |-> {}]
  /\ nav = [pc |-> "idle", live |-> FALSE, calls |-> 0,
            reqs |-> [a \in 1..2 |-> [st |-> "none", timer |-> "unset", sock |-> "none",
                                      data |-> <<>>, err |-> "none"]],
            url |-> "none", cdp |-> "none", result |-> "none"]
  /\ file = [exists |-> FALSE, content |-> <<>>,
             op |-> [name |-> "none", expect |-> [none |-> TRUE, port |-> 0, pid |-> 0]],
             read |-> FALSE, got |-> [none |-> TRUE, port |-> 0, pid |-> 0]]
  /\ stateFile = Absent
  /\ trace = <<>>
  /\ swapPort = NoPort
  /\ last = Op("other", 0, {})

\* ------------------------------------------------------------- CdpProxy
\* getPort(): the cached listen port
getPort_Backend == IF backendPort # NoPort THEN backendPort ELSE listenPort
getPort == listenPort

\* closeConnections(): destroy every tracked socket (the set is then cleared)
closeConnections_ClientsOnly(sk, cs) ==
  [s \in Sockets |-> IF s \in cs /\ s[1] = "c" THEN Destroy(sk[s]) ELSE sk[s]]
closeConnections(sk, cs) ==
  [s \in Sockets |-> IF s \in cs THEN Destroy(sk[s]) ELSE sk[s]]

\* triggerLazyLaunch(), first test: join the launch already in flight
ShareLaunch_Never == FALSE
ShareLaunch == launching /\ launchPromise # NoLaunch

\* handleConnection after the await: this.backendPort = port
AfterLaunchBackend_KeepSet(port, bp) == IF bp # NoPort THEN bp ELSE port
AfterLaunchBackend(port, bp) == port

\* the lazy-launch callback returns the editor's CDP port without spawning
LazyUsesEditor_Never == FALSE
LazyUsesEditor == vsCodeEnv.ipc /\ vsCodeEnv.cdpPort # NoPort

\* handleConnection, backend set: createConnection to this.backendPort
ConnectDirect(i) ==
  /\ sock' = [sock EXCEPT ![ClientSock(i)] = "open", ![BackendSock(i)] = "open"]
  /\ target' = [target EXCEPT ![i] = backendPort]
  /\ connections' = connections \cup {ClientSock(i), BackendSock(i)}
  /\ UNCHANGED <<backendPort, launching, launchPromise, awaits, launch>>

\* handleConnection, no backend and no callback: destroy the client
ConnectReject(i) ==
  /\ CloseEvents([sock EXCEPT ![ClientSock(i)] = "destroyed"],
                 connections \cup {ClientSock(i)}, target)
  /\ UNCHANGED <<backendPort, launching, launchPromise, awaits, launch>>

\* triggerLazyLaunch, a launch is in flight: await the same promise
ConnectJoin(i) ==
  /\ sock' = [sock EXCEPT ![ClientSock(i)] = "open"]
  /\ connections' = connections \cup {ClientSock(i)}
  /\ awaits' = [awaits EXCEPT ![i] = launchPromise]
  /\ UNCHANGED <<backendPort, launching, launchPromise, launch, target>>

\* triggerLazyLaunch, callback resolves at once with the editor's port:
\* the flags are set and cleared and the backend connected in the same turn
ConnectLazyEditor(i) ==
  /\ backendPort' = AfterLaunchBackend(vsCodeEnv.cdpPort, backendPort)
  /\ sock' = [sock EXCEPT ![ClientSock(i)] = "open", ![BackendSock(i)] = "open"]
  /\ target' = [target EXCEPT ![i] = backendPort']
  /\ connections' = connections \cup {ClientSock(i), BackendSock(i)}
  /\ launching' = FALSE
  /\ launchPromise' = NoLaunch
  /\ UNCHANGED <<awaits, launch>>

\* triggerLazyLaunch, callback calls launchBrowserInternal(): await getFreePort()
ConnectLazyLaunch(i) ==
  /\ CanLaunch
  /\ launch' = [launch EXCEPT ![NextLaunch] =
                  [origin |-> "lazy", phase |-> "port", opts |-> ConfigOpts]]
  /\ launching' = TRUE
  /\ launchPromise' = NextLaunch
  /\ awaits' = [awaits EXCEPT ![i] = NextLaunch]
  /\ sock' = [sock EXCEPT ![ClientSock(i)] = "open"]
  /\ connections' = connections \cup {ClientSock(i)}
  /\ UNCHANGED <<backendPort, target>>

\* a client connects to the listener: handleConnection up to its first await
HandleConnection(i) ==
  /\ server = "listening"
  /\ sock[ClientSock(i)] = "none"
  /\ \A j \in Conns : j < i => sock[ClientSock(j)] # "none"
  /\ IF backendPort # NoPort THEN ConnectDirect(i)
     ELSE IF ~lazyLaunch THEN ConnectReject(i)
     ELSE IF ShareLaunch THEN ConnectJoin(i)
     ELSE IF LazyUsesEditor THEN ConnectLazyEditor(i)
     ELSE ConnectLazyLaunch(i)
  /\ last' = Op("other", 0, {})
  /\ UNCHANGED <<coordVars, server, serverAddr, listenPort, lazyLaunch,
                 proc, sideVars, stateFile, trace, swapPort>>

\* the downstream client closes its end: 'close' on the client socket, whose
\* handler is connections.delete(clientSocket).  pipe() passes the client's
\* 'end' on as backendSocket.end(), a half-close that destroys nothing: the
\* backend socket stays in the set until the browser closes it too
ClientDisconnect(i) ==
  /\ sock[ClientSock(i)] = "open"
  /\ sock' = [sock EXCEPT ![ClientSock(i)] = "closed"]
  /\ connections' = connections \ {ClientSock(i)}
  /\ last' = Op("other", 0, {})
  /\ UNCHANGED <<coordVars, server, serverAddr, listenPort, backendPort,
                 lazyLaunch, launching, launchPromise, target, awaits,
                 launch, proc, sideVars, stateFile, trace, swapPort>>

\* 'error' on the client socket of a connection whose backend socket exists
\* (the handler is registered after createConnection): destroy the backend
\* socket, untrack the client, which Node destroys itself
ClientError(i) ==
  /\ sock[ClientSock(i)] = "open"
  /\ sock[BackendSock(i)] # "none"
  /\ CloseEvents([sock EXCEPT ![ClientSock(i)] = "destroyed",
                              ![BackendSock(i)] = Destroy(@)],
                 connections \ {ClientSock(i)}, target)
  /\ last' = Op("other", 0, {})
  /\ UNCHANGED <<coordVars, server, serverAddr, listenPort, backendPort,
                 lazyLaunch, launching, launchPromise, awaits,
                 launch, proc, sideVars, stateFile, trace, swapPort>>

\* 'error' on the backend socket (refused, reset): destroy the client,
\* untrack the backend socket, which Node destroys itself
BackendError(i) ==
  /\ sock[BackendSock(i)] = "open"
  /\ CloseEvents([sock EXCEPT ![BackendSock(i)] = "destroyed",
                              ![ClientSock(i)] = Destroy(@)],
                 connections \ {BackendSock(i)}, target)
  /\ last' = Op("other", 0, {})
  /\ UNCHANGED <<coordVars, server, serverAddr, listenPort, backendPort,
                 lazyLaunch, launching, launchPromise, awaits,
                 launch, proc, sideVars, stateFile, trace, swapPort>>

\* the browser closes its end of a backend connection: 'close' on the
\* backend socket, whose handler is connections.delete(backendSocket)
BackendClose(i) ==
  /\ sock[BackendSock(i)] = "open"
  /\ sock' = [sock EXCEPT ![BackendSock(i)] = "closed"]
  /\ target' = [target EXCEPT ![i] = NoPort]
  /\ connections' = connections \ {BackendSock(i)}
  /\ last' = Op("other", 0, {})
  /\ UNCHANGED <<coordVars, server, serverAddr, listenPort, backendPort,
                 lazyLaunch, launching, launchPromise, awaits,
                 launch, proc, sideVars, stateFile, trace, swapPort>>

\* ------------------------------------------------------------- launcher
\* stopBrowser(instance): SIGTERM unless process.killed; kill() marks the
\* process killed only when the signal was delivered to a running process
stopBrowser_NoSignal(pr, k) == pr
stopBrowser(pr, k) ==
  IF ~pr[k].killed /\ pr[k].st = "running"
  THEN [pr EXCEPT ![k].killed = TRUE]
  ELSE pr

Waiters(k) == {i \in Conns : awaits[i] = k}

\* launchBrowserInternal / launchBrowser settled: the call's frame is gone
Settled(k, ph) == [launch EXCEPT ![k].phase = ph, ![k].opts = NoOpts]

\* triggerLazyLaunch's finally: launching = false; launchPromise = null
LazyFinally_KeepPromise ==
  /\ launching' = FALSE
  /\ UNCHANGED launchPromise
LazyFinally ==
  /\ launching' = FALSE
  /\ launchPromise' = NoLaunch

\* launchBrowserInternal resolved inside the lazy callback: triggerLazyLaunch's
\* finally clears the guard, then every handleConnection awaiting the promise
\* assigns backendPort and opens its backend connection
SettleLazyOk_Redirect(k) ==
  /\ LazyFinally
  /\ backendPort' = AfterLaunchBackend(PortOf(k), backendPort)
  /\ sock' = [s \in Sockets |->
               IF s[1] = "b" /\ s[2] \in Waiters(k) THEN "open" ELSE sock[s]]
  /\ target' = [i \in Conns |->
                  IF i \in Waiters(k) \/ sock[BackendSock(i)] = "open"
                  THEN backendPort' ELSE target[i]]
  /\ connections' = connections \cup {BackendSock(i) : i \in Waiters(k)}
  /\ awaits' = [i \in Conns |-> IF i \in Waiters(k) THEN NoLaunch ELSE awaits[i]]
  /\ last' = Op("lazyOk", k, {BackendSock(i) : i \in Waiters(k)})
  /\ UNCHANGED swapPort
SettleLazyOk(k) ==
  /\ LazyFinally
  /\ backendPort' = AfterLaunchBackend(PortOf(k), backendPort)
  /\ sock' = [s \in Sockets |->
               IF s[1] = "b" /\ s[2] \in Waiters(k) THEN "open" ELSE sock[s]]
  /\ target' = [i \in Conns |-> IF i \in Waiters(k) THEN backendPort' ELSE target[i]]
  /\ connections' = connections \cup {BackendSock(i) : i \in Waiters(k)}
  /\ awaits' = [i \in Conns |-> IF i \in Waiters(k) THEN NoLaunch ELSE awaits[i]]
  /\ last' = Op("lazyOk", k, {BackendSock(i) : i \in Waiters(k)})
  /\ UNCHANGED swapPort

\* the lazy promise rejected: the guard is cleared and every waiting
\* handleConnection lands in its catch and destroys its client
SettleLazyFail_KeepClients(k) ==
  /\ LazyFinally
  /\ awaits' = [i \in Conns |-> IF i \in Waiters(k) THEN NoLaunch ELSE awaits[i]]
  /\ last' = Op("lazyFail", k, {ClientSock(i) : i \in Waiters(k)})
  /\ UNCHANGED <<sock, backendPort, target, connections, swapPort>>
SettleLazyFail(k) ==
  /\ LazyFinally
  /\ CloseEvents([s \in Sockets |->
                   IF s[1] = "c" /\ s[2] \in Waiters(k) THEN Destroy(sock[s])
                   ELSE sock[s]],
                 connections, target)
  /\ awaits' = [i \in Conns |-> IF i \in Waiters(k) THEN NoLaunch ELSE awaits[i]]
  /\ last' = Op("lazyFail", k, {ClientSock(i) : i \in Waiters(k)})
  /\ UNCHANGED <<backendPort, swapPort>>

\* launch-browser / restart-browser after the await:
\* setBackend(internalPort); closeConnections()
SettleToolOk_KeepBackend(k) ==
  /\ CloseEvents(closeConnections(sock, connections), {}, target)
  /\ swapPort' = PortOf(k)
  /\ last' = Op("swap", k, OpenSockets)
  /\ UNCHANGED <<backendPort, launching, launchPromise, awaits>>
SettleToolOk(k) ==
  /\ backendPort' = PortOf(k)
  /\ CloseEvents(closeConnections(sock, connections), {}, target)
  /\ swapPort' = PortOf(k)
  /\ last' = Op("swap", k, OpenSockets)
  /\ UNCHANGED <<launching, launchPromise, awaits>>

\* launch-browser / restart-browser rejected: nothing in the handler catches
\* the error, the promise handleCoordinatorTool returned rejects
SettleToolFail(k) ==
  /\ last' = Op("thrown", k, {})
  /\ UNCHANGED <<backendPort, sock, connections, swapPort, launching,
                 launchPromise, target, awaits>>

SettleFail(k) ==
  IF launch[k].origin = "lazy" THEN SettleLazyFail(k) ELSE SettleToolFail(k)

\* getFreePort() resolved, findBrowser() found a binary: spawn
LaunchSpawn(k) ==
  /\ launch[k].phase = "port"
  /\ launch' = [launch EXCEPT ![k].phase = "spawned"]
  /\ proc' = [proc EXCEPT ![k].st = "running"]
  /\ last' = Op("other", 0, {})
  /\ UNCHANGED <<coordVars, proxyVars, sockVars, sideVars, stateFile, trace, swapPort>>

\* getFreePort() resolved, findBrowser() returned null: launchBrowser throws
LaunchNoBrowser(k) ==
  /\ launch[k].phase = "port"
  /\ launch' = Settled(k, "fail")
  /\ SettleFail(k)
  /\ UNCHANGED <<coordVars, server, serverAddr, listenPort, lazyLaunch,
                 proc, sideVars, stateFile, trace>>

\* readiness line seen and endpoint polled: launchBrowser returns the
\* instance, launchBrowserInternal stores it and returns the port
LaunchReady(k) ==
  /\ launch[k].phase = "spawned"
  /\ proc[k].st = "running"
  /\ launch' = Settled(k, "ok")
  /\ browserInstance' = k
  /\ instanceOpts' = launch[k].opts
  /\ IF launch[k].origin = "lazy" THEN SettleLazyOk(k) ELSE SettleToolOk(k)
  /\ UNCHANGED <<initPc, vsCodeEnv, shutPc, server, serverAddr, listenPort,
                 lazyLaunch, proc, sideVars, stateFile, trace>>

\* 15 s without the readiness line: SIGKILL and reject
LaunchTimeout(k) ==
  /\ launch[k].phase = "spawned"
  /\ proc[k].st = "running"
  /\ launch' = Settled(k, "fail")
  /\ proc' = [proc EXCEPT ![k] = [st |-> "exited", killed |-> TRUE]]
  /\ SettleFail(k)
  /\ UNCHANGED <<coordVars, server, serverAddr, listenPort, lazyLaunch,
                 sideVars, stateFile, trace>>

\* the browser process exits: 'exit' carries a code, or null when a signal
\* ended the process.  Before readiness the handler clears the 15 s timer
\* and rejects the launch only when the code is not null.  After readiness
\* nothing listens to 'exit', and a process whose instance the controller no
\* longer holds is read by no handler: its exit is left out.
ProcExit(k, bySignal) ==
  /\ proc[k].st = "running"
  /\ Pending(k) \/ browserInstance = k
  /\ proc' = [proc EXCEPT ![k].st = "exited"]
  /\ IF launch[k].phase = "spawned" /\ ~bySignal
     THEN /\ launch' = Settled(k, "fail")
          /\ SettleFail(k)
     ELSE /\ last' = Op("other", 0, {})
          /\ UNCHANGED <<launch, backendPort, sock, connections, swapPort,
                         launching, launchPromise, target, awaits>>
  /\ UNCHANGED <<coordVars, server, serverAddr, listenPort, lazyLaunch,
                 sideVars, stateFile, trace>>

\* --------------------------------------------------- CoordinatorServer
\* initialize(), first await: detectVSCodeAsync() (skipped under noVscode,
\* which leaves the default environment)
InitDetect ==
  /\ initPc = "start"
  /\ initPc' = "detected"
  /\ \E ipc \in BOOLEAN, cp \in {NoPort, EditorPort} :
       vsCodeEnv' = [ipc |-> ipc, cdpPort |-> cp]
  /\ last' = Op("other", 0, {})
  /\ UNCHANGED <<browserInstance, instanceOpts, shutPc, proxyVars, sockVars,
                 launch, proc, sideVars, stateFile, trace, swapPort>>

\* writeState(): the file holds the record
writeState(rec) == rec

\* the record initialize() hands to writeState: the port listen() returned
StateRecord_BeforeListen(p) == [exists |-> TRUE, port |-> listenPort, pid |-> Pid]
StateRecord(p) == [exists |-> TRUE, port |-> p, pid |-> Pid]

\* initialize() calls no launcher: the browser starts on the first connection
InitBrowser_Eager ==
  /\ launch' = [launch EXCEPT ![1] =
                  [origin |-> "lazy", phase |-> "port", opts |-> ConfigOpts]]
InitBrowser == UNCHANGED launch

\* initialize() after listen(0) resolved with the bound port p:
\* onLazyLaunch, setBackend of the editor's port, writeState
InitListen ==
  /\ initPc = "detected"
  /\ initPc' = "done"
  /\ \E p \in {ProxyPort} :
       /\ server' = "listening"
       /\ serverAddr' = p
       /\ listenPort' = p
       /\ stateFile' = writeState(StateRecord(p))
  /\ lazyLaunch' = TRUE
  /\ backendPort' = IF vsCodeEnv.cdpPort # NoPort THEN vsCodeEnv.cdpPort
                    ELSE backendPort
  /\ InitBrowser
  /\ trace' = trace \o <<"listen", "onLazyLaunch">>
                 \o (IF vsCodeEnv.cdpPort # NoPort THEN <<"setBackend">> ELSE <<>>)
                 \o <<"writeState">>
  /\ last' = Op("init", 0, {})
  /\ UNCHANGED <<vsCodeEnv, browserInstance, instanceOpts, shutPc, connections,
                 launching, launchPromise, sockVars, proc, sideVars, swapPort>>

Serving == initPc = "done" /\ shutPc = "no"

\* a tool call is being handled: the host sends its tool calls one at a time
\* and waits for each result
ToolBusy == \E k \in Launches : launch[k].origin \in {"launch", "restart"} /\ Pending(k)

\* launchBrowserInternal(opts) up to its first await, getFreePort()
StartLaunch(origin, opts) ==
  /\ CanLaunch
  /\ launch' = [launch EXCEPT ![NextLaunch] =
                  [origin |-> origin, phase |-> "port", opts |-> opts]]

\* launch-browser: { ...this.opts.browser, browserType, headless } (the two
\* arguments replace the configured fields even when they are undefined)
LaunchOpts(withType) ==
  IF withType
  THEN [ConfigOpts EXCEPT !.browserType = "firefox", !.headless = "false"]
  ELSE [ConfigOpts EXCEPT !.browserType = "undef", !.headless = "undef"]

\* restart-browser: prevOpts = { ...this.opts.browser }
RestartOpts == ConfigOpts

\* coordinator_launch_browser up to the await of launchBrowserInternal
ToolLaunch(withType) ==
  /\ Serving
  /\ ~ToolBusy
  /\ IF ~withType /\ vsCodeEnv.ipc
     THEN /\ last' = Op("other", 0, {})
          /\ UNCHANGED <<browserInstance, instanceOpts, proc, launch>>
     ELSE /\ IF browserInstance # NoLaunch /\ ~proc[browserInstance].killed
             THEN /\ proc' = stopBrowser(proc, browserInstance)
                  /\ browserInstance' = NoLaunch
                  /\ instanceOpts' = NoOpts
             ELSE UNCHANGED <<browserInstance, instanceOpts, proc>>
          /\ StartLaunch("launch", LaunchOpts(withType))
          /\ last' = Op("launch", browserInstance, {})
  /\ UNCHANGED <<initPc, vsCodeEnv, shutPc, proxyVars, sockVars, sideVars, stateFile,
                 trace, swapPort>>

\* coordinator_stop_browser
ToolStop_NoClose ==
  /\ Serving
  /\ ~ToolBusy
  /\ IF browserInstance # NoLaunch
     THEN /\ proc' = stopBrowser(proc, browserInstance)
          /\ browserInstance' = NoLaunch
          /\ instanceOpts' = NoOpts
          /\ backendPort' = NoPort
          /\ UNCHANGED <<sock, connections>>
          /\ swapPort' = NoPort
          /\ last' = Op("stop", browserInstance, OpenSockets)
     ELSE /\ last' = Op("other", 0, {})
          /\ UNCHANGED <<proc, browserInstance, instanceOpts, backendPort, sock,
                         connections, swapPort>>
  /\ UNCHANGED <<initPc, vsCodeEnv, shutPc, server, serverAddr, listenPort,
                 lazyLaunch, launching, launchPromise, target, awaits, launch,
                 sideVars, stateFile, trace>>

ToolStop_ClearState ==
  /\ Serving
  /\ ~ToolBusy
  /\ IF browserInstance # NoLaunch
     THEN /\ proc' = stopBrowser(proc, browserInstance)
          /\ browserInstance' = NoLaunch
          /\ instanceOpts' = NoOpts
          /\ backendPort' = NoPort
          /\ CloseEvents(closeConnections(sock, connections), {}, target)
          /\ swapPort' = NoPort
          /\ stateFile' = Absent
          /\ last' = Op("stop", browserInstance, OpenSockets)
     ELSE /\ last' = Op("other", 0, {})
          /\ UNCHANGED <<proc, browserInstance, instanceOpts, backendPort, sock,
                         connections, target, swapPort, stateFile>>
  /\ UNCHANGED <<initPc, vsCodeEnv, shutPc, server, serverAddr, listenPort,
                 lazyLaunch, launching, launchPromise, awaits, launch,
                 sideVars, trace>>

ToolStop ==
  /\ Serving
  /\ ~ToolBusy
  /\ IF browserInstance # NoLaunch
     THEN /\ proc' = stopBrowser(proc, browserInstance)
          /\ browserInstance' = NoLaunch
          /\ instanceOpts' = NoOpts
          /\ backendPort' = NoPort
          /\ CloseEvents(closeConnections(sock, connections), {}, target)
          /\ swapPort' = NoPort
          /\ last' = Op("stop", browserInstance, OpenSockets)
     ELSE /\ last' = Op("other", 0, {})
          /\ UNCHANGED <<proc, browserInstance, instanceOpts, backendPort, sock,
                         connections, target, swapPort>>
  /\ UNCHANGED <<initPc, vsCodeEnv, shutPc, server, serverAddr, listenPort,
                 lazyLaunch, launching, launchPromise, awaits, launch,
                 sideVars, stateFile, trace>>

\* coordinator_restart_browser up to the await of launchBrowserInternal
ToolRestart ==
  /\ Serving
  /\ ~ToolBusy
  /\ IF browserInstance # NoLaunch
     THEN /\ proc' = stopBrowser(proc, browserInstance)
          /\ browserInstance' = NoLaunch
          /\ instanceOpts' = NoOpts
          /\ StartLaunch("restart", RestartOpts)
          /\ last' = [Op("restart", browserInstance, {}) EXCEPT !.opts = instanceOpts]
     ELSE /\ last' = Op("other", 0, {})
          /\ UNCHANGED <<proc, browserInstance, instanceOpts, launch>>
  /\ UNCHANGED <<initPc, vsCodeEnv, shutPc, proxyVars, sockVars, sideVars, stateFile,
                 trace, swapPort>>

\* shutdown() up to the await inside cdpProxy.close(): stopBrowser,
\* closeConnections(), server.close() (the listener stops accepting)
ShutdownBegin_ClearFirst ==
  /\ Serving
  /\ shutPc' = "closing"
  /\ IF browserInstance # NoLaunch
     THEN /\ proc' = stopBrowser(proc, browserInstance)
          /\ browserInstance' = NoLaunch
          /\ instanceOpts' = NoOpts
     ELSE UNCHANGED <<proc, browserInstance, instanceOpts>>
  /\ CloseEvents(closeConnections(sock, connections), {}, target)
  /\ server' = "closing"
  /\ stateFile' = Absent
  /\ trace' = trace \o <<"clearState">>
                    \o (IF browserInstance # NoLaunch THEN <<"stopBrowser">> ELSE <<>>)
                    \o <<"proxyClose">>
  /\ last' = Op("shutdown", 0, {})
  /\ UNCHANGED <<initPc, vsCodeEnv, serverAddr, listenPort, backendPort,
                 lazyLaunch, launching, launchPromise, awaits, launch,
                 sideVars, swapPort>>

ShutdownBegin ==
  /\ Serving
  /\ shutPc' = "closing"
  /\ IF browserInstance # NoLaunch
     THEN /\ proc' = stopBrowser(proc, browserInstance)
          /\ browserInstance' = NoLaunch
          /\ instanceOpts' = NoOpts
     ELSE UNCHANGED <<proc, browserInstance, instanceOpts>>
  /\ CloseEvents(closeConnections(sock, connections), {}, target)
  /\ server' = "closing"
  /\ trace' = trace \o (IF browserInstance # NoLaunch THEN <<"stopBrowser">> ELSE <<>>)
                    \o <<"proxyClose">>
  /\ last' = Op("shutdown", 0, {})
  /\ UNCHANGED <<initPc, vsCodeEnv, serverAddr, listenPort, backendPort,
                 lazyLaunch, launching, launchPromise, awaits, launch,
                 sideVars, stateFile, swapPort>>

\* every accepted socket has closed: the server.close() callback runs
\* (server = null), close() resolves and shutdown() calls clearState()
ShutdownFinish ==
  /\ shutPc = "closing"
  /\ \A i \in Conns : sock[ClientSock(i)] \in {"none", "closed"}
  /\ shutPc' = "done"
  /\ server' = "closed"
  /\ stateFile' = Absent
  /\ trace' = trace \o <<"clearState">>
  /\ last' = Op("other", 0, {})
  /\ UNCHANGED <<initPc, vsCodeEnv, browserInstance, instanceOpts, serverAddr,
                 listenPort, backendPort, connections, lazyLaunch, launching,
                 launchPromise, sockVars, launch, proc, sideVars, swapPort>>

Next ==
  \/ InitDetect
  \/ InitListen
  \/ \E i \in Conns : HandleConnection(i)
  \/ \E i \in Conns : ClientDisconnect(i)
  \/ \E i \in Conns : ClientError(i)
  \/ \E i \in Conns : BackendError(i)
  \/ \E i \in Conns : BackendClose(i)
  \/ \E k \in Launches : LaunchSpawn(k)
  \/ \E k \in Launches : LaunchNoBrowser(k)
  \/ \E k \in Launches : LaunchReady(k)
  \/ \E k \in Launches : LaunchTimeout(k)
  \/ \E k \in Launches, bySignal \in BOOLEAN : ProcExit(k, bySignal)
  \/ \E withType \in BOOLEAN : ToolLaunch(withType)
  \/ ToolStop
  \/ ToolRestart
  \/ ShutdownBegin
  \/ ShutdownFinish

Spec == Init /\ [][Next]_vars

\* What the event loop guarantees: a pending continuation or timer runs.
\* initialize() goes on after each of its awaits, getFreePort() resolves,
\* a spawned browser becomes ready, exits with a code or meets the 15 s
\* timer, and server.close() calls back once the sockets are closed.  Tool
\* calls, signals, client connections and the end of a ready browser are
\* inputs and are not forced.  Each forced step moves the position of
\* initialize(), of shutdown() or of a launch.
steps == <<initPc, shutPc, launch>>

Scheduling ==
  /\ WF_steps(InitDetect)
  /\ WF_steps(InitListen)
  /\ WF_steps(ShutdownFinish)
  /\ \A k \in Launches :
       /\ WF_steps(LaunchSpawn(k) \/ LaunchNoBrowser(k))
       /\ WF_steps(launch[k].phase = "spawned"
                     /\ (LaunchReady(k) \/ LaunchTimeout(k) \/ ProcExit(k, FALSE)))

SpecLive == Spec /\ Scheduling

\* ----------------------------------------- launchBrowser / stopBrowser
\* The launcher on its own, one call of launchBrowser() per launch number,
\* with its timers, the signals it sends and the profile directory.
\* lb[k].pc: "idle" | "waiting" (readiness promise pending) | "polling"
\* (waitForPort) | "returned" | "thrown".  lb[k].st: "none" | "failed" (spawn
\* could not start the binary) | "running" | "exited".
mainVars == <<initPc, vsCodeEnv, browserInstance, instanceOpts, shutPc, server,
              serverAddr, listenPort, backendPort, connections, lazyLaunch,
              launching, launchPromise, sock, target, awaits, launch, proc,
              stateFile, trace, swapPort, last>>

\* a step of one of the parts seen on their own: it changes that part's
\* variable v and nothing else
Only(v) ==
  /\ UNCHANGED mainVars
  /\ IF v = "lb" THEN TRUE ELSE UNCHANGED lb
  /\ IF v = "pipe" THEN TRUE ELSE UNCHANGED pipe
  /\ IF v = "file" THEN TRUE ELSE UNCHANGED file
  /\ IF v = "nav" THEN TRUE ELSE UNCHANGED nav
  /\ IF v = "disc" THEN TRUE ELSE UNCHANGED disc
  /\ IF v = "srv" THEN TRUE ELSE UNCHANGED srv
  /\ IF v = "fetch" THEN TRUE ELSE UNCHANGED fetch
  /\ IF v = "wrap" THEN TRUE ELSE UNCHANGED wrap
  /\ IF v = "eng" THEN TRUE ELSE UNCHANGED eng

\* process.kill(signal): delivered, and process.killed set, only while the
\* child is running
Kill(r, sig) ==
  IF r.st = "running"
  THEN [r EXCEPT !.killed = TRUE, !.sent = @ \cup {sig}]
  ELSE r

\* clearTimeout(timeout) of the readiness promise
ClearTimeout(r) == IF r.timeout = "armed" THEN [r EXCEPT !.timeout = "cleared"] ELSE r

\* launchBrowser(port, opts) up to the await of the readiness promise:
\* findBrowser, createUserDataDir, spawn, setTimeout(15000)
LbCall(k) ==
  /\ lb[k].pc = "idle"
  /\ \A j \in Launches : j < k => lb[j].pc # "idle"
  /\ \E found, started \in BOOLEAN :
       lb' = [lb EXCEPT ![k] =
                IF ~found THEN [@ EXCEPT !.pc = "thrown"]
                ELSE [@ EXCEPT !.pc = "waiting", !.dir = "exists",
                               !.st = IF started THEN "running" ELSE "failed",
                               !.timeout = "armed"]]
  /\ Only("lb")

\* stderr 'data' with the "DevTools listening on" line: clearTimeout, resolve
LbStderr(k) ==
  /\ lb[k].pc = "waiting"
  /\ lb[k].st = "running"
  /\ lb' = [lb EXCEPT ![k] = [ClearTimeout(@) EXCEPT !.pc = "polling"]]
  /\ Only("lb")

\* waitForPort settled (its failure is caught): the instance is returned
LbPolled(k) ==
  /\ lb[k].pc = "polling"
  /\ lb' = [lb EXCEPT ![k].pc = "returned"]
  /\ Only("lb")

\* 'error' from the child (the binary could not be started): clearTimeout, reject
LbError(k) ==
  /\ lb[k].pc = "waiting"
  /\ lb[k].st = "failed"
  /\ lb' = [lb EXCEPT ![k] = [ClearTimeout(@) EXCEPT !.pc = "thrown"]]
  /\ Only("lb")

\* 'exit' from the child: clearTimeout; reject only if (code !== null), and
\* the code is null when a signal ended the process
LbExit(k, bySignal) ==
  /\ lb[k].st = "running"
  /\ lb' = [lb EXCEPT ![k] =
              [ClearTimeout(@) EXCEPT
                 !.st = "exited",
                 !.pc = IF @ = "waiting" /\ ~bySignal THEN "thrown" ELSE @]]
  /\ Only("lb")

\* the 15 s timer fires: proc.kill("SIGKILL"), reject
LbTimeout(k) ==
  /\ lb[k].timeout = "armed"
  /\ lb' = [lb EXCEPT ![k] =
              [Kill(@, "SIGKILL") EXCEPT !.timeout = "fired", !.pc = "thrown"]]
  /\ Only("lb")

\* stopBrowser(instance): SIGTERM and a 5 s timer unless process.killed,
\* then rmSync of the profile directory
LbStop(k) ==
  /\ lb[k].pc = "returned"
  /\ lb' = [lb EXCEPT ![k] =
              [(IF ~@.killed
                THEN [Kill(@, "SIGTERM") EXCEPT !.killTimer = "armed"]
                ELSE @) EXCEPT !.dir = "removed"]]
  /\ Only("lb")

\* the 5 s timer of stopBrowser fires: SIGKILL unless process.killed
LbKillTimer(k) ==
  /\ lb[k].killTimer = "armed"
  /\ lb' = [lb EXCEPT ![k] =
              [(IF ~@.killed THEN Kill(@, "SIGKILL") ELSE @)
                 EXCEPT !.killTimer = "fired"]]
  /\ Only("lb")

LauncherNext ==
  \/ \E k \in Launches : LbCall(k)
  \/ \E k \in Launches : LbStderr(k)
  \/ \E k \in Launches : LbPolled(k)
  \/ \E k \in Launches : LbError(k)
  \/ \E k \in Launches, bySignal \in BOOLEAN : LbExit(k, bySignal)
  \/ \E k \in Launches : LbTimeout(k)
  \/ \E k \in Launches : LbStop(k)
  \/ \E k \in Launches : LbKillTimer(k)

SpecLauncher == Init /\ [][LauncherNext]_vars

\* ------------------------------------------------------- bytes of a pair
\* One connection of handleConnection and the bytes that cross it.  The proxy
\* attaches no 'data' listener of its own and writes to neither socket: the
\* only consumers are the two pipe() calls of the connect callback.  Until
\* then the client socket is not flowing and what it reads stays in its buffer.
\* pipe.pc: "idle" | "accepted" (handleConnection ran: waiting for the lazy
\* launch or for the backend to connect) | "piped" | "closed".
\* handleConnection(clientSocket): the client is connected and may write
PipeAccept ==
  /\ pipe.pc = "idle"
  /\ pipe' = [pipe EXCEPT !.pc = "accepted"]
  /\ Only("pipe")

\* connect callback of createConnection:
\* clientSocket.pipe(backendSocket); backendSocket.pipe(clientSocket)
PipeConnected_Flowing ==
  /\ pipe.pc = "accepted"
  /\ pipe' = [pipe EXCEPT !.pc = "piped", !.up.buf = <<>>]
  /\ Only("pipe")
PipeConnected ==
  /\ pipe.pc = "accepted"
  /\ pipe' = [pipe EXCEPT !.pc = "piped"]
  /\ Only("pipe")

\* the client writes a byte; the client socket reads it into its buffer
PipeClientWrite(b) ==
  /\ pipe.pc \in {"accepted", "piped"}
  /\ Len(pipe.up.sent) < MaxBytes
  /\ pipe' = [pipe EXCEPT !.up.sent = Append(@, b), !.up.buf = Append(@, b),
                          !.early = IF pipe.pc = "accepted" THEN @ + 1 ELSE @]
  /\ Only("pipe")

\* the browser writes a byte on the established backend connection
PipeBackendWrite(b) ==
  /\ pipe.pc = "piped"
  /\ Len(pipe.down.sent) < MaxBytes
  /\ pipe' = [pipe EXCEPT !.down.sent = Append(@, b), !.down.buf = Append(@, b)]
  /\ Only("pipe")

\* pipe(): 'data' on the source with the first n buffered bytes,
\* dest.write(chunk)
Forward(st, n) ==
  [st EXCEPT !.recv = @ \o SubSeq(st.buf, 1, n),
             !.buf = SubSeq(@, n + 1, Len(@))]

PipeForwardUp(n) ==
  /\ pipe.pc = "piped"
  /\ n \in 1..Len(pipe.up.buf)
  /\ pipe' = [pipe EXCEPT !.up = Forward(@, n)]
  /\ Only("pipe")

PipeForwardDown(n) ==
  /\ pipe.pc = "piped"
  /\ n \in 1..Len(pipe.down.buf)
  /\ pipe' = [pipe EXCEPT !.down = Forward(@, n)]
  /\ Only("pipe")

\* socket.destroy() (closeConnections, the error handlers, the catch of
\* handleConnection): what the sockets still buffer is discarded
PipeDestroy ==
  /\ pipe.pc \in {"accepted", "piped"}
  /\ pipe' = [pipe EXCEPT !.pc = "closed", !.up.buf = <<>>, !.down.buf = <<>>]
  /\ Only("pipe")

PipeNext ==
  \/ PipeAccept
  \/ PipeConnected
  \/ \E b \in ByteVals : PipeClientWrite(b)
  \/ \E b \in ByteVals : PipeBackendWrite(b)
  \/ \E n \in 1..MaxBytes : PipeForwardUp(n)
  \/ \E n \in 1..MaxBytes : PipeForwardDown(n)
  \/ PipeDestroy

SpecPipe == Init /\ [][PipeNext]_vars

\* ------------------------------------------------------ rendezvous file
\* state.ts on its own: the file as the characters in it (character codes),
\* written by JSON.stringify(state, null, 2) + "\n" and read by JSON.parse.
\* The parser covers what the files below hold: objects of string, number
\* and literal members, and bare values; no escapes, signs, fractions or
\* nesting.
\* file: [exists, content, op = the last call or outside write, read = the
\* file has been read since, got = what the reader's last readState() returned]
KeyPort == <<112, 111, 114, 116>>     \* port
KeyPid == <<112, 105, 100>>           \* pid
None == [none |-> TRUE, port |-> 0, pid |-> 0]
Some(port, pid) == [none |-> FALSE, port |-> port, pid |-> pid]

\* a number as JSON.stringify prints it (non-negative integers)
RECURSIVE Digits_LowFirst(_)
Digits_LowFirst(n) ==
  IF n < 10 THEN <<48 + n>> ELSE <<48 + (n % 10)>> \o Digits_LowFirst(n \div 10)
RECURSIVE Digits(_)
Digits(n) ==
  IF n < 10 THEN <<48 + n>> ELSE Digits(n \div 10) \o <<48 + (n % 10)>>

\* JSON.stringify({port, pid}, null, 2): members in insertion order, one per
\* line, indented by two spaces, ": " after the key
JSONstringify(state) ==
  <<123, 10, 32, 32, 34>> \o KeyPort \o <<34, 58, 32>> \o Digits(state.port)
    \o <<44, 10, 32, 32, 34>> \o KeyPid \o <<34, 58, 32>> \o Digits(state.pid)
    \o <<10, 125>>

\* JSON.parse, lexical part: whitespace dropped, one token per punctuation
\* mark, per quoted string (quotes kept) and per run of other characters;
\* <<0>> stands for a string that is not closed
RECURSIVE Lex(_)
Lex(s) ==
  IF s = <<>> THEN <<>>
  ELSE LET c == Head(s)
           rest == Tail(s)
           Word(x) == x \notin {32, 10, 9, 13, 123, 125, 58, 44, 34}
           run == CHOOSE n \in 1..Len(s) :
                    /\ \A i \in 1..n : Word(s[i])
                    /\ (n = Len(s) \/ ~Word(s[n + 1]))
           close == {n \in 1..Len(rest) : rest[n] = 34}
           q == CHOOSE n \in close : \A m \in close : n <= m
       IN  IF c \in {32, 10, 9, 13} THEN Lex(rest)
           ELSE IF c \in {123, 125, 58, 44} THEN <<<<c>>>> \o Lex(rest)
           ELSE IF c = 34
             THEN IF close = {} THEN <<<<0>>>>
                  ELSE <<SubSeq(s, 1, q + 1)>> \o Lex(SubSeq(rest, q + 1, Len(rest)))
           ELSE <<SubSeq(s, 1, run)>> \o Lex(SubSeq(s, run + 1, Len(s)))

\* a number token: digits, no leading zero
IsNum(t) ==
  /\ Len(t) >= 1
  /\ \A i \in 1..Len(t) : t[i] \in 48..57
  /\ Len(t) = 1 \/ t[1] # 48

RECURSIVE NumVal(_)
NumVal(t) ==
  IF t = <<>> THEN 0
  ELSE 10 * NumVal(SubSeq(t, 1, Len(t) - 1)) + (t[Len(t)] - 48)

\* JSON.parse: [ok, obj, mem]; ok = no SyntaxError, obj = the value is an
\* object, mem = its members <<key token, value token>> in order
JSONparse(s) ==
  LET t == Lex(s)
      n == Len(t)
      k == (n - 1) \div 4
      IsStr(x) == Len(x) >= 2 /\ x[1] = 34 /\ x[Len(x)] = 34
      IsLit(x) == x \in {<<110, 117, 108, 108>>, <<116, 114, 117, 101>>,
                         <<102, 97, 108, 115, 101>>}     \* null, true, false
      IsValue(x) == IsNum(x) \/ IsStr(x) \/ IsLit(x)
      bad == [ok |-> FALSE, obj |-> FALSE, mem |-> <<>>]
  IN  IF n = 1 /\ IsValue(t[1]) THEN [ok |-> TRUE, obj |-> FALSE, mem |-> <<>>]
      ELSE IF n < 2 \/ t[1] # <<123>> \/ t[n] # <<125>> THEN bad
      ELSE IF n = 2 THEN [ok |-> TRUE, obj |-> TRUE, mem |-> <<>>]
      ELSE IF n # 4 * k + 1 THEN bad
      ELSE IF \A j \in 0..(k - 1) :
                 /\ IsStr(t[4 * j + 2])
                 /\ t[4 * j + 3] = <<58>>
                 /\ IsValue(t[4 * j + 4])
                 /\ t[4 * j + 5] = (IF j = k - 1 THEN <<125>> ELSE <<44>>)
           THEN [ok |-> TRUE, obj |-> TRUE,
                 mem |-> [j \in 1..k |-> <<t[4 * j - 2], t[4 * j]>>]]
           ELSE bad

\* readState(): null when the file is absent, JSON.parse throws, the value has
\* no properties to read (null) or either field is not a number.  state.port
\* and state.pid are the value token of the last member with that key, <<>>
\* for undefined
readState(f) ==
  LET p == JSONparse(f.content)
      Field(key) ==
        LET at == {j \in 1..Len(p.mem) : p.mem[j][1] = <<34>> \o key \o <<34>>}
        IN  IF at = {} THEN <<>>
            ELSE p.mem[CHOOSE j \in at : \A m \in at : m <= j][2]
  IN  IF ~f.exists THEN None
      ELSE IF ~p.ok \/ ~p.obj THEN None
      ELSE IF ~IsNum(Field(KeyPort)) \/ ~IsNum(Field(KeyPid)) THEN None
      ELSE Some(NumVal(Field(KeyPort)), NumVal(Field(KeyPid)))

\* records a controller writes: a bound port and a process id
StateRecords == {Some(port, pid) : port \in {ProxyPort, EditorPort}, pid \in {Pid, 7}}

\* what another program or an earlier run can have left at the path, with
\* what a reader is to make of it
ForeignFiles == {
    \* {"port": 41837, "pid": 12345}
    [text |-> <<123, 34, 112, 111, 114, 116, 34, 58, 32, 52, 49, 56, 51, 55, 44, 32, 34, 112, 105, 100, 34, 58, 32, 49, 50, 51, 52, 53, 125>>,
     expect |-> Some(41837, 12345)],
    \* {"pid":7,"x":"y","port":9222}
    [text |-> <<123, 34, 112, 105, 100, 34, 58, 55, 44, 34, 120, 34, 58, 34, 121, 34, 44, 34, 112, 111, 114, 116, 34, 58, 57, 50, 50, 50, 125>>,
     expect |-> Some(9222, 7)],
    \* not json
    [text |-> <<110, 111, 116, 32, 106, 115, 111, 110>>,
     expect |-> None],
    \* {"port": "not a number"}
    [text |-> <<123, 34, 112, 111, 114, 116, 34, 58, 32, 34, 110, 111, 116, 32, 97, 32, 110, 117, 109, 98, 101, 114, 34, 125>>,
     expect |-> None],
    \* {"port": "41837", "pid": 4242}
    [text |-> <<123, 34, 112, 111, 114, 116, 34, 58, 32, 34, 52, 49, 56, 51, 55, 34, 44, 32, 34, 112, 105, 100, 34, 58, 32, 52, 50, 52, 50, 125>>,
     expect |-> None],
    \* {"pid": 4242}
    [text |-> <<123, 34, 112, 105, 100, 34, 58, 32, 52, 50, 52, 50, 125>>,
     expect |-> None],
    \* {"port": 41837, "pid": null}
    [text |-> <<123, 34, 112, 111, 114, 116, 34, 58, 32, 52, 49, 56, 51, 55, 44, 32, 34, 112, 105, 100, 34, 58, 32, 110, 117, 108, 108, 125>>,
     expect |-> None],
    \* {"port": 41837, "pid": 4242
    [text |-> <<123, 34, 112, 111, 114, 116, 34, 58, 32, 52, 49, 56, 51, 55, 44, 32, 34, 112, 105, 100, 34, 58, 32, 52, 50, 52, 50>>,
     expect |-> None],
    \* {"port": 41837 "pid": 4242}
    [text |-> <<123, 34, 112, 111, 114, 116, 34, 58, 32, 52, 49, 56, 51, 55, 32, 34, 112, 105, 100, 34, 58, 32, 52, 50, 52, 50, 125>>,
     expect |-> None],
    \* (empty file)
    [text |-> <<>>,
     expect |-> None],
    \* null
    [text |-> <<110, 117, 108, 108>>,
     expect |-> None],
    \* 41837
    [text |-> <<52, 49, 56, 51, 55>>,
     expect |-> None],
    \* {}
    [text |-> <<123, 125>>,
     expect |-> None]}

\* writeState(state): mkdirSync, writeFileSync (overwrite)
StateWrite(r) ==
  /\ file' = [exists |-> TRUE, content |-> JSONstringify(r) \o <<10>>,
               op |-> [name |-> "write", expect |-> r], read |-> FALSE, got |-> file.got]
  /\ Only("file")

\* clearState(): unlinkSync when the file exists
StateClear ==
  /\ file.op.name # "clear"
  /\ file' = [exists |-> FALSE, content |-> <<>>,
               op |-> [name |-> "clear", expect |-> None], read |-> FALSE, got |-> file.got]
  /\ Only("file")

\* the file as someone else left it
StateForeign(c) ==
  /\ file' = [exists |-> TRUE, content |-> c.text,
               op |-> [name |-> "foreign", expect |-> c.expect], read |-> FALSE,
               got |-> file.got]
  /\ Only("file")

\* readState()
StateRead ==
  /\ ~file.read
  /\ file' = [file EXCEPT !.read = TRUE, !.got = readState(file)]
  /\ Only("file")

StateNext ==
  \/ \E r \in StateRecords : StateWrite(r)
  \/ StateClear
  \/ \E c \in ForeignFiles : StateForeign(c)
  \/ StateRead

SpecState == Init /\ [][StateNext]_vars

\* ------------------------------------------------- IPC client, navigate
\* coordinator_navigate on its own, with sendIpc() and the sendIpcRequest()
\* calls it makes.  A response arrives in chunks: "half" and "tail" are the
\* two halves of a JSON response line ("tail" ends with the newline), "full"
\* is a whole line, "junk" a line that is not JSON.
\* nav: [pc, live, calls, reqs, url, cdp, result]; calls = sendIpcRequest
\* calls made; pc: "idle" | "ipc" | "cdp" | "done";
\* reqs[a]: the a-th sendIpcRequest: [st, timer, sock, data, err]
NoReq == [st |-> "none", timer |-> "unset", sock |-> "none", data |-> <<>>,
          err |-> "none"]

\* sendIpcRequest up to its return: createConnection, setTimeout(timeout)
NewReq == [NoReq EXCEPT !.st = "pending", !.timer = "armed", !.sock = "connecting"]

\* the request sendIpc is waiting for
Cur == IF nav.reqs[2].st # "none" THEN 2 ELSE 1

\* data.slice(0, newlineIdx) parses as JSON
ValidLine(data) == data \in {<<"full">>, <<"half", "tail">>}

\* sendIpc's catch: the first failure is retried, the second is not
ShouldRetry_Never(a) == FALSE
ShouldRetry(a) == a = 1

\* sendIpcRequest settled: sendIpc and the navigate handler run on.  r is the
\* request as its handler left it
Continue(r) ==
  LET rs == [nav.reqs EXCEPT ![Cur] = r]
  IN  IF r.st = "resolved"
      THEN \* sendIpc returns true: remember the URL, return
           nav' = [nav EXCEPT !.reqs = rs, !.pc = "done", !.url = "url",
                              !.result = "ipc"]
      ELSE IF ShouldRetry(Cur)
      THEN nav' = [nav EXCEPT !.reqs = [rs EXCEPT ![2] = NewReq], !.calls = @ + 1]
      ELSE \* sendIpc returns false: getCdpClient()
           nav' = [nav EXCEPT !.reqs = rs, !.pc = "cdp", !.cdp = "connecting"]

\* coordinator_navigate with a url, up to its first await: sendIpc when
\* vsCodeEnv.ipcSocketPath is set, else getCdpClient()
NavCall_CdpFirst(live) ==
  /\ nav.pc = "idle"
  /\ nav' = [nav EXCEPT !.pc = "cdp", !.live = live, !.cdp = "connecting"]
  /\ Only("nav")
NavCall(live) ==
  /\ nav.pc = "idle"
  /\ nav' = IF live
            THEN [nav EXCEPT !.pc = "ipc", !.live = TRUE, !.calls = 1,
                             !.reqs[1] = NewReq]
            ELSE [nav EXCEPT !.pc = "cdp", !.cdp = "connecting"]
  /\ Only("nav")

\* connect callback: socket.write(request line)
IpcConnect ==
  /\ nav.pc = "ipc"
  /\ nav.reqs[Cur].sock = "connecting"
  /\ nav' = [nav EXCEPT !.reqs[Cur].sock = "open"]
  /\ Only("nav")

\* 'data': append; with a newline in hand clearTimeout, destroy, and resolve
\* with the parsed line or reject when it does not parse
IpcData(c) ==
  /\ nav.pc = "ipc"
  /\ nav.reqs[Cur].sock = "open"
  /\ Len(nav.reqs[Cur].data) < MaxChunks
  /\ LET r == nav.reqs[Cur]
         d == Append(r.data, c)
     IN  IF c = "half"
         THEN nav' = [nav EXCEPT !.reqs[Cur].data = d]
         ELSE Continue([r EXCEPT !.data = d, !.timer = "cleared",
                                 !.sock = "destroyed",
                                 !.st = IF ValidLine(d) THEN "resolved" ELSE "rejected",
                                 !.err = IF ValidLine(d) THEN "none" ELSE "invalid"])
  /\ Only("nav")

\* 'error' (no listener at the path, reset): clearTimeout, reject(err)
IpcError ==
  /\ nav.pc = "ipc"
  /\ nav.reqs[Cur].sock \in {"connecting", "open"}
  /\ Continue([nav.reqs[Cur] EXCEPT !.timer = "cleared", !.sock = "destroyed",
                                     !.st = "rejected", !.err = "error"])
  /\ Only("nav")

\* 'close' with no newline received: clearTimeout, reject
IpcClose_Silent ==
  /\ nav.pc = "ipc"
  /\ nav.reqs[Cur].sock = "open"
  /\ nav' = [nav EXCEPT !.reqs[Cur].timer = "cleared", !.reqs[Cur].sock = "closed"]
  /\ Only("nav")
IpcClose ==
  /\ nav.pc = "ipc"
  /\ nav.reqs[Cur].sock = "open"
  /\ Continue([nav.reqs[Cur] EXCEPT !.timer = "cleared", !.sock = "closed",
                                     !.st = "rejected", !.err = "closed"])
  /\ Only("nav")

\* the timer fires: socket.destroy(), reject(timed out)
IpcTimeout ==
  /\ nav.pc = "ipc"
  /\ nav.reqs[Cur].timer = "armed"
  /\ Continue([nav.reqs[Cur] EXCEPT !.timer = "fired", !.sock = "destroyed",
                                     !.st = "rejected", !.err = "timeout"])
  /\ Only("nav")

\* the CDP path: connectToTarget and Page.navigate settle; a failure is
\* caught and returned as text
NavCdp(ok) ==
  /\ nav.pc = "cdp"
  /\ nav' = [nav EXCEPT !.pc = "done", !.cdp = IF ok THEN "closed" ELSE "failed",
                        !.result = IF ok THEN "cdp" ELSE "failed"]
  /\ Only("nav")

IpcNext ==
  \/ \E live \in BOOLEAN : NavCall(live)
  \/ IpcConnect
  \/ \E c \in {"half", "tail", "full", "junk"} : IpcData(c)
  \/ IpcError
  \/ IpcClose
  \/ IpcTimeout
  \/ \E ok \in BOOLEAN : NavCdp(ok)

SpecIpc == Init /\ [][IpcNext]_vars

\* ------------------------------------------------------ socket discovery
\* discoverExtensionSocket(cwd) on its own.  Socket files are numbered,
\* file 1 is the workspace's own (getSocketPath(cwd)); live are the files a
\* server is listening on.  A probe's answer is the environment's: false
\* when nothing listens (connection refused), and for a listening server
\* true (its "ok" line came within the 2000 ms) or false (the timer fired
\* first, or the line was not an "ok" response).
\* disc: [pc, cwd, entries = what readdirSync returned, i = entries probed,
\*        probes = <<file, answer>> in order, unlinked, ret = file or 0, live]
\* pc: "idle" | "specific" | "scan" | "done"
SockFiles == 1..MaxSock

\* discoverExtensionSocket up to its first await: the workspace socket is
\* probed when cwd is given and the file exists, else the scan begins.  An
\* empty directory returns null at once
DiscCall(cwd, order, live) ==
  /\ disc.pc = "idle"
  /\ disc' = [disc EXCEPT
               !.cwd = cwd, !.entries = order, !.live = live,
               !.pc = IF cwd /\ \E n \in 1..Len(order) : order[n] = 1 THEN "specific"
                      ELSE IF order = <<>> THEN "done" ELSE "scan"]
  /\ Only("disc")

\* probeSocket(specific) settled: return it when healthy, else scan
DiscProbeSpecific(ok) ==
  /\ disc.pc = "specific"
  /\ ok => 1 \in disc.live
  /\ disc' = [disc EXCEPT !.probes = Append(@, <<1, ok>>),
                          !.pc = IF ok THEN "done" ELSE "scan",
                          !.ret = IF ok THEN 1 ELSE @]
  /\ Only("disc")

\* probeSocket(sockPath) of the next entry settled: return it when healthy,
\* else unlinkSync and go on; null after the last entry
DiscProbeEntry_KeepStale(ok) ==
  /\ disc.pc = "scan"
  /\ ok => disc.entries[disc.i + 1] \in disc.live
  /\ LET f == disc.entries[disc.i + 1]
     IN  disc' = [disc EXCEPT
                   !.probes = Append(@, <<f, ok>>),
                   !.i = @ + 1,
                   !.ret = IF ok THEN f ELSE @,
                   !.pc = IF ok \/ disc.i + 1 = Len(disc.entries) THEN "done" ELSE @]
  /\ Only("disc")
DiscProbeEntry(ok) ==
  /\ disc.pc = "scan"
  /\ ok => disc.entries[disc.i + 1] \in disc.live
  /\ LET f == disc.entries[disc.i + 1]
     IN  disc' = [disc EXCEPT
                   !.probes = Append(@, <<f, ok>>),
                   !.i = @ + 1,
                   !.ret = IF ok THEN f ELSE @,
                   !.unlinked = IF ok THEN @ ELSE @ \cup {f},
                   !.pc = IF ok \/ disc.i + 1 = Len(disc.entries) THEN "done" ELSE @]
  /\ Only("disc")

\* the directory holds any of the socket files, listed in any order
DiscNext ==
  \/ \E cwd \in BOOLEAN, present \in SUBSET SockFiles :
       \E order \in [1..Cardinality(present) -> present], live \in SUBSET present :
         /\ \A m, n \in DOMAIN order : m # n => order[m] # order[n]
         /\ DiscCall(cwd, order, live)
  \/ \E ok \in BOOLEAN : DiscProbeSpecific(ok)
  \/ \E ok \in BOOLEAN : DiscProbeEntry(ok)

SpecDiscover == Init /\ [][DiscNext]_vars

\* ------------------------------------------------------------ IPC server
\* One connection to the editor extension's socket server.  The request line
\* arrives in chunks [kind, part]: part "all" is a whole line with its
\* newline, "head" a first piece without newline, "tail" the rest with the
\* newline; kind "garbled" is text that is not JSON, "nourl" a navigate
\* request without url, "unknown" a request of no known type.
\* srv: [conn, chunks, handled, out = responses written, url, selecting]
ReqKinds == {"ping", "get_state", "navigate", "nourl", "start_element_select",
             "cancel_element_select", "unknown", "garbled"}

\* JSON.parse(line) in handleIpcRequest: the request's kind, or "garbled"
\* when the line does not parse
LineKind(chunks) ==
  IF \/ Len(chunks) = 1 /\ chunks[1].part = "all"
     \/ /\ Len(chunks) = 2
        /\ chunks[1].part = "head" /\ chunks[2].part = "tail"
        /\ chunks[1].kind = chunks[2].kind
  THEN chunks[1].kind
  ELSE "garbled"

\* handleIpcRequest(conn, line): invalid JSON is logged and the connection
\* ended; a request gets its response written, then the connection is ended
handleIpcRequest(v, kind) ==
  IF kind = "garbled"
  THEN [v EXCEPT !.handled = TRUE, !.conn = "ended"]
  ELSE [v EXCEPT
          !.handled = TRUE,
          !.conn = "ended",
          !.out = Append(@, CASE kind = "get_state" -> "state"
                              [] kind \in {"nourl", "unknown"} -> "error"
                              [] OTHER -> "ok"),
          !.url = IF kind = "navigate" THEN "url" ELSE @,
          !.selecting = IF kind = "start_element_select" THEN TRUE
                        ELSE IF kind = "cancel_element_select" THEN FALSE
                        ELSE @]

\* a client connects: data = ""
SrvAccept ==
  /\ srv.conn = "none"
  /\ srv' = [srv EXCEPT !.conn = "open"]
  /\ Only("srv")

\* 'data': append; with a newline in hand, handleIpcRequest(conn, line)
SrvData(c) ==
  /\ srv.conn = "open"
  /\ Len(srv.chunks) < MaxChunks
  /\ LET v == [srv EXCEPT !.chunks = Append(@, c)]
     IN  srv' = IF c.part = "head" THEN v
                ELSE handleIpcRequest(v, LineKind(v.chunks))
  /\ Only("srv")

\* the client closes without a complete line: the server's side ends too
SrvClientClose ==
  /\ srv.conn = "open"
  /\ srv' = [srv EXCEPT !.conn = "ended"]
  /\ Only("srv")

SrvNext ==
  \/ SrvAccept
  \/ \E k \in ReqKinds, p \in {"all", "head", "tail"} :
       SrvData([kind |-> k, part |-> p])
  \/ SrvClientClose

SpecIpcServer == Init /\ [][SrvNext]_vars

\* ------------------------------------------------------------------ fetch
\* coordinator_fetch on its own, as the tool handler ("handler",
\* coordinator-server.ts) and as CdpSession.browserFetch ("session",
\* browser-session.ts).  Every await is a step whose outcome is "ok", "throw"
\* (the awaited promise rejects) or "return" (the code leaves by itself: tab
\* not found, origin mismatch, fetch exception or empty result).
\* fetch: [n = calls so far, impl, pc, stage, exit = <<stage, outcome>> of the
\*         way out, tab, fc = the tab's client, main = the main client, timer]
\* pc: "idle" | "run" | "closing" (Target.closeTarget awaited) | "done"
\* tab: "none" | "open" | "closed" | "left" (closeTarget failed)
Stages == <<"getCdpClient", "createTarget", "getTargets", "connect", "enable",
            "navigate", "navDone", "origin", "stopLoading", "evaluate">>
FetchIdle == [n |-> 0, impl |-> "none", pc |-> "idle", stage |-> 0,
              exit |-> <<0, "none">>, tab |-> "none", fc |-> "none",
              main |-> "none", timer |-> "unset"]

\* the finally block sends Target.closeTarget: the handler when targetId and
\* mainClient are set, browserFetch always (its try begins after the tab
\* was created)
SendsClose_OnThrow(f) == f.tab = "open" /\ f.exit[2] = "throw"
SendsClose(f) == f.tab = "open"

\* the finally block up to its await: fetchClient.close(), then closeTarget,
\* else mainClient.close() and out
Finally(f) ==
  LET g == [f EXCEPT !.fc = IF @ = "open" THEN "closed" ELSE @]
  IN  IF SendsClose(g) THEN [g EXCEPT !.pc = "closing"]
      ELSE [g EXCEPT !.pc = "done",
                     !.main = IF @ = "open" /\ g.impl = "handler" THEN "closed" ELSE @]

\* the call up to its first await.  The handler returns at once on an invalid
\* URL; browserFetch holds its session's client and starts with createTarget
FetchCall(impl, urlOk) ==
  /\ fetch.pc \in {"idle", "done"}
  /\ fetch.n < MaxFetch
  /\ fetch' = IF ~urlOk
              THEN [FetchIdle EXCEPT !.n = fetch.n + 1, !.impl = impl, !.pc = "done",
                                     !.exit = <<0, "return">>]
              ELSE [FetchIdle EXCEPT !.n = fetch.n + 1, !.impl = impl, !.pc = "run",
                                     !.stage = IF impl = "handler" THEN 1 ELSE 2,
                                     !.main = IF impl = "handler" THEN "none" ELSE "open"]
  /\ Only("fetch")

\* the awaited call of the current stage settles
FetchAwait(out) ==
  /\ fetch.pc = "run"
  /\ out = "return" => Stages[fetch.stage] \in {"getTargets", "origin", "evaluate"}
  /\ LET st == Stages[fetch.stage]
         f == [fetch EXCEPT
                 !.main = IF st = "getCdpClient" /\ out = "ok" THEN "open" ELSE @,
                 !.tab = IF st = "createTarget" /\ out = "ok" THEN "open" ELSE @,
                 !.fc = IF st = "connect" /\ out = "ok" THEN "open" ELSE @,
                 !.timer = IF st = "enable" /\ out = "ok" THEN "armed"
                           ELSE IF st = "navDone"
                             THEN (IF out = "ok" THEN "cleared" ELSE "fired")
                           ELSE @]
     IN  fetch' = IF out = "ok" /\ fetch.stage < Len(Stages)
                  THEN [f EXCEPT !.stage = @ + 1]
                  ELSE IF st = "createTarget" /\ f.impl = "session"
                  THEN [f EXCEPT !.pc = "done", !.exit = <<fetch.stage, out>>]
                  ELSE Finally([f EXCEPT !.exit = <<fetch.stage, out>>])
  /\ Only("fetch")

\* Target.closeTarget settled (a failure is swallowed); the handler then
\* closes the main client
FetchClosed(ok) ==
  /\ fetch.pc = "closing"
  /\ fetch' = [fetch EXCEPT !.pc = "done",
                            !.tab = IF ok THEN "closed" ELSE "left",
                            !.main = IF fetch.impl = "handler" THEN "closed" ELSE @]
  /\ Only("fetch")

FetchNext ==
  \/ \E impl \in {"handler", "session"}, urlOk \in BOOLEAN : FetchCall(impl, urlOk)
  \/ \E out \in {"ok", "throw", "return"} : FetchAwait(out)
  \/ \E ok \in BOOLEAN : FetchClosed(ok)

SpecFetch == Init /\ [][FetchNext]_vars

\* --------------------------------------------------------- wrap (cli.ts)
\* runWrap on its own: the poll of the rendezvous file, the spawn of the
\* child, the signals forwarded to it and the exit of the wrap process.
ForwardedSignals == {"SIGINT", "SIGTERM", "SIGHUP"}

\* process.exit(code ?? 0) in the child's 'exit' handler
ExitCode(code) == IF code = NoCode THEN 0 ELSE code

\* readState() gave a record: injectPort and spawn(childCommand, childArgs);
\* a command that cannot be started emits 'error' instead of running
WrapSpawn(w, p, ok) ==
  wrap' = [w EXCEPT !.pc = "running", !.port = p,
                    !.child.st = IF ok THEN "running" ELSE "failed"]

\* the first readState(), and each one after a 250 ms sleep, until a record
\* is read or the time is up
WrapRead(found, ok) ==
  /\ wrap.pc \in {"idle", "sleeping"}
  /\ LET n == IF wrap.pc = "idle" THEN 0 ELSE wrap.polls + 1
         w == [wrap EXCEPT !.polls = n]
     IN  IF found # NoPort THEN WrapSpawn(w, found, ok)
         ELSE IF n < MaxPolls THEN wrap' = [w EXCEPT !.pc = "sleeping"]
         ELSE wrap' = [w EXCEPT !.pc = "exited", !.exit = 1]
  /\ Only("wrap")

\* SIGINT, SIGTERM or SIGHUP reaches wrap: child.kill(sig)
WrapSignal(sig) ==
  /\ wrap.pc = "running"
  /\ wrap' = IF wrap.child.st = "running"
             THEN [wrap EXCEPT !.fwd = @ \cup {sig}]
             ELSE wrap
  /\ Only("wrap")

\* the child ends: it calls exit(code), or a signal ends it (one that wrap
\* forwarded and the child did not handle, or one sent by someone else)
ChildEnds(code, signal) ==
  /\ wrap.child.st = "running"
  /\ (code = NoCode) # (signal = "none")
  /\ signal \in {"none", "SIGKILL"} \cup wrap.fwd
  /\ wrap' = [wrap EXCEPT !.child = [st |-> "exited", code |-> code,
                                     signal |-> signal]]
  /\ Only("wrap")

\* 'exit' of the child: process.exit ends the wrap process
WrapChildExit ==
  /\ wrap.pc = "running"
  /\ wrap.child.st = "exited"
  /\ wrap' = [wrap EXCEPT !.pc = "exited", !.exit = ExitCode(wrap.child.code)]
  /\ Only("wrap")

\* 'error' of the child that could not be spawned
WrapChildError ==
  /\ wrap.pc = "running"
  /\ wrap.child.st = "failed"
  /\ wrap' = [wrap EXCEPT !.pc = "exited", !.exit = 1]
  /\ Only("wrap")

WrapNext ==
  \/ \E found \in {NoPort, ProxyPort}, ok \in BOOLEAN : WrapRead(found, ok)
  \/ \E sig \in ForwardedSignals : WrapSignal(sig)
  \/ \E code \in {NoCode, 0, 1, 2},
        signal \in ForwardedSignals \cup {"none", "SIGKILL"} : ChildEnds(code, signal)
  \/ WrapChildExit
  \/ WrapChildError

SpecWrap == Init /\ [][WrapNext]_vars

\* ------------------------------------- controller with the BiDi engine
\* The controller of the revision that launches Firefox over BiDi, with the
\* proxy's backend port, on their own.  A launch is numbered as it starts;
\* held is the BrowserInstance (its engine and launch number), lazy and tool
\* the launch pending in the lazy callback and in a tool handler.
BrowserTypes == {"chrome", "firefox"}
NoHeld == [engine |-> "none", n |-> NoLaunch]
NoPending == [n |-> NoLaunch, type |-> "undef"]

\* findBrowser(preferredType) over the installed browsers: the preferred one
\* when it is installed, else the first Chromium one; Firefox is never picked
\* unless asked for
findBrowser(type, installed) ==
  IF installed = {} THEN "none"
  ELSE IF type # "undef" /\ type \in installed THEN type
  ELSE IF "chrome" \in installed THEN "chrome"
  ELSE "none"

\* launchBrowser: launchFirefox gives engine "firefox", the rest "chromium"
Engine(browser) == IF browser = "firefox" THEN "firefox" ELSE "chromium"

\* the controller is constructed with --browser cfg and initialized
EngInit(cfg, installed) ==
  /\ eng.pc = "idle"
  /\ eng' = [eng EXCEPT !.pc = "serving", !.cfg = cfg, !.installed = installed]
  /\ Only("eng")

\* handleConnection up to its await: with a backend the client is forwarded,
\* with a lazy launch in flight it joins it, else the callback calls
\* launchBrowserInternal() with the configured options
EngConnect ==
  /\ eng.pc = "serving"
  /\ IF eng.backend # NoPort \/ eng.lazy.n # NoLaunch
     THEN eng' = eng
     ELSE /\ eng.n < MaxLaunch
          /\ eng' = [eng EXCEPT !.n = @ + 1,
                                !.lazy = [n |-> eng.n + 1, type |-> eng.cfg]]
  /\ Only("eng")

\* the lazy launch settled: launchBrowserInternal stores the instance and
\* handleConnection assigns backendPort = port
EngLazySettle(ok) ==
  /\ eng.lazy.n # NoLaunch
  /\ LET b == findBrowser(eng.lazy.type, eng.installed)
     IN  eng' = IF ok /\ b # "none"
                THEN [eng EXCEPT !.lazy = NoPending,
                                 !.held = [engine |-> Engine(b), n |-> eng.lazy.n],
                                 !.backend = PortOf(eng.lazy.n)]
                ELSE [eng EXCEPT !.lazy = NoPending]
  /\ Only("eng")

\* coordinator_launch_browser up to its await
EngToolLaunch(type) ==
  /\ eng.pc = "serving"
  /\ eng.tool.n = NoLaunch
  /\ eng.n < MaxLaunch
  /\ eng' = [eng EXCEPT !.held = NoHeld, !.n = @ + 1,
                        !.tool = [n |-> eng.n + 1, type |-> type]]
  /\ Only("eng")

\* coordinator_restart_browser up to its await
EngToolRestart ==
  /\ eng.pc = "serving"
  /\ eng.tool.n = NoLaunch
  /\ eng.held # NoHeld
  /\ eng.n < MaxLaunch
  /\ eng' = [eng EXCEPT !.held = NoHeld, !.n = @ + 1,
                        !.tool = [n |-> eng.n + 1, type |-> eng.cfg]]
  /\ Only("eng")

\* coordinator_stop_browser
EngToolStop ==
  /\ eng.pc = "serving"
  /\ eng.tool.n = NoLaunch
  /\ eng.held # NoHeld
  /\ eng' = [eng EXCEPT !.held = NoHeld, !.backend = NoPort]
  /\ Only("eng")

\* the launch of launch-browser or restart-browser settled: for a Chromium
\* instance setBackend(internalPort), for Firefox clearBackend()
EngToolSettle(ok) ==
  /\ eng.tool.n # NoLaunch
  /\ LET b == findBrowser(eng.tool.type, eng.installed)
     IN  eng' = IF ok /\ b # "none"
                THEN [eng EXCEPT !.tool = NoPending,
                                 !.held = [engine |-> Engine(b), n |-> eng.tool.n],
                                 !.backend = IF Engine(b) = "chromium"
                                             THEN PortOf(eng.tool.n) ELSE NoPort]
                ELSE [eng EXCEPT !.tool = NoPending]
  /\ Only("eng")

EngNext ==
  \/ \E cfg \in BrowserTypes \cup {"undef"}, installed \in SUBSET BrowserTypes :
       EngInit(cfg, installed)
  \/ EngConnect
  \/ \E ok \in BOOLEAN : EngLazySettle(ok)
  \/ \E type \in BrowserTypes \cup {"undef"} : EngToolLaunch(type)
  \/ EngToolRestart
  \/ EngToolStop
  \/ \E ok \in BOOLEAN : EngToolSettle(ok)

SpecEngine == Init /\ [][EngNext]_vars

\* ------------------------------------------------------------ properties
IsPrefix(a, b) == Len(a) <= Len(b) /\ a = SubSeq(b, 1, Len(a))
IsInitCall(e) == e \in {"listen", "onLazyLaunch", "setBackend", "writeState"}
IsShutdownCall(e) == e \in {"stopBrowser", "proxyClose", "clearState"}
InitCalls == SelectSeq(trace, IsInitCall)
ShutdownCalls == SelectSeq(trace, IsShutdownCall)
LazyPending == {k \in Launches : launch[k].origin = "lazy" /\ Pending(k)}

\* C1 - Port stability: while the listener exists (from listen() succeeding to
\* close() completing) getPort() returns the port the listener is bound to,
\* whatever launch, stop, restart and lazy launches have done to the backend.
C1_PortStability ==
  server \in {"listening", "closing"} => getPort = serverAddr

\* C1 witness: a restart has completed (launch, then restart) with the
\* listener up and the backend moved away from its first value.
C1_Witness ==
  /\ server = "listening"
  /\ \E k \in Launches : launch[k].origin = "restart" /\ launch[k].phase = "ok"
  /\ backendPort = PortOf(2)
  /\ getPort = ProxyPort

\* C2 - Single-flight lazy launch: at most one invocation of the lazy-launch
\* callback is in flight, and every connection waiting for a launch waits for
\* that one invocation.
C2_SingleFlight ==
  /\ Cardinality(LazyPending) <= 1
  /\ \A i \in Conns : awaits[i] # NoLaunch =>
       /\ launching
       /\ awaits[i] = launchPromise
       /\ LazyPending = {awaits[i]}

\* C2 witness: two connections wait on the same invocation.
C2_Witness ==
  \E i, j \in Conns : i # j /\ awaits[i] # NoLaunch /\ awaits[i] = awaits[j]

\* C3 (as claimed) - after setBackend(new); closeConnections(), and until
\* setBackend or clearBackend is called again, the backend is `new` and every
\* open backend connection (all opened after the call) targets `new`.
C3_AfterSwapTargetsNew ==
  swapPort # NoPort =>
    /\ backendPort = swapPort
    /\ \A i \in Conns : sock[BackendSock(i)] = "open" => target[i] = swapPort

\* C4 - Backend swap isolation: right after setBackend(new); closeConnections()
\* no socket that was open before the call is open or tracked.
C4_SwapIsolation ==
  last.op = "swap" =>
    \A s \in last.open : sock[s] # "open" /\ s \notin connections

\* C4 witness: a swap found an established pair open.
C4_Witness ==
  /\ last.op = "swap"
  /\ \E i \in Conns : {ClientSock(i), BackendSock(i)} \subseteq last.open

\* C5 - A connection waiting for the lazy launch has no backend connection
\* while the launch is pending, and when the launch succeeds every waiting
\* connection gets a backend connection to the port the launch returned.
C5_ConnectAfterLaunch ==
  /\ \A i \in Conns : awaits[i] # NoLaunch =>
       sock[BackendSock(i)] = "none" /\ Pending(awaits[i])
  /\ last.op = "lazyOk" =>
       /\ launch[last.arg].phase = "ok"
       /\ \A s \in last.open : sock[s] = "open" /\ target[s[2]] = PortOf(last.arg)

\* C5 witness: a lazy launch succeeded with two connections waiting on it.
C5_Witness ==
  last.op = "lazyOk" /\ Cardinality(last.open) >= 2

\* C6 - Clearing the backend closes all pairs: right after the backend has
\* been cleared (stop-browser) no socket open before the clear is open or
\* tracked.
C6_ClearClosesPairs ==
  (last.op = "stop" /\ last.arg # NoLaunch) =>
    /\ backendPort = NoPort
    /\ \A s \in last.open : sock[s] # "open" /\ s \notin connections

\* C6 witness: stop-browser cleared the backend while a pair was open.
C6_Witness ==
  /\ last.op = "stop"
  /\ last.arg # NoLaunch
  /\ \E i \in Conns : {ClientSock(i), BackendSock(i)} \subseteq last.open

\* C7 (as claimed) - once close() has completed the listener is closed, no
\* socket of the proxy is open or tracked, and none is opened afterwards.
C7_ClosedProxyIsDead ==
  server = "closed" => (connections = {} /\ \A s \in Sockets : sock[s] # "open")

\* C8 - Shutdown ordering: stop browser (if any), then close proxy, then
\* remove the rendezvous record; the record is still there while the proxy
\* is closing and the listener is closed when the record goes.
C8_ShutdownOrder ==
  /\ \/ IsPrefix(ShutdownCalls, <<"stopBrowser", "proxyClose", "clearState">>)
     \/ IsPrefix(ShutdownCalls, <<"proxyClose", "clearState">>)
  /\ shutPc = "closing" => (server = "closing" /\ stateFile.exists)
  /\ shutPc = "done" => (server = "closed" /\ ~stateFile.exists)

\* C8 witness: a shutdown that had a browser to stop has completed.
C8_Witness ==
  shutPc = "done" /\ ShutdownCalls = <<"stopBrowser", "proxyClose", "clearState">>

C10_SpawnOnlyOnDemand ==
  [][\A k \in Launches :
       /\ (launch[k].phase = "none" /\ launch'[k].phase # "none") =>
            /\ initPc = "done"
            /\ \/ /\ launch'[k].origin = "lazy"
                  /\ backendPort = NoPort
                  /\ \E i \in Conns : sock[ClientSock(i)] = "none"
                                      /\ sock'[ClientSock(i)] = "open"
               \/ /\ launch'[k].origin \in {"launch", "restart"}
                  /\ sock' = sock
       /\ (proc[k].st = "none" /\ proc'[k].st # "none") =>
            launch[k].phase = "port"]_vars

\* C10 witness: a browser spawned by a lazy launch is running.
C10_Witness ==
  \E k \in Launches : launch[k].origin = "lazy" /\ proc[k].st = "running"

\* C11 - launch-browser, when not answered with the editor-browser notice:
\* the instance held at the call is stopped and dropped before the new
\* process is spawned, and when the launch succeeds the backend is the new
\* instance's port, the controller holds the new instance, and no socket that
\* was open before is open or tracked.
C11_LaunchReplaces ==
  /\ (last.op = "launch" /\ last.arg # NoLaunch) =>
       /\ browserInstance = NoLaunch
       /\ proc[last.arg].killed \/ proc[last.arg].st # "running"
       /\ \A k \in Launches :
            (launch[k].origin = "launch" /\ Pending(k)) => proc[k].st = "none"
  /\ (last.op = "swap" /\ launch[last.arg].origin = "launch") =>
       /\ backendPort = PortOf(last.arg)
       /\ browserInstance = last.arg
       /\ \A s \in last.open : sock[s] # "open" /\ s \notin connections

\* C11 witness: launch-browser succeeded after stopping a running instance,
\* with an established pair open.
C11_Witness ==
  /\ last.op = "swap"
  /\ launch[last.arg].origin = "launch"
  /\ \E j \in Launches : j # last.arg /\ proc[j].killed
  /\ \E i \in Conns : {ClientSock(i), BackendSock(i)} \subseteq last.open

\* C12 - stop-browser with an instance present: when it returns the instance
\* has been sent its stop signal (or was already dead), the controller holds
\* no instance, the backend is null and the connection set is empty.
C12_StopClears ==
  last.op = "stop" =>
    /\ proc[last.arg].killed \/ proc[last.arg].st # "running"
    /\ browserInstance = NoLaunch
    /\ instanceOpts = NoOpts
    /\ backendPort = NoPort
    /\ connections = {}

\* C12 witness: stop-browser stopped a running instance with sockets open.
C12_Witness ==
  /\ last.op = "stop"
  /\ proc[last.arg].killed
  /\ proc[last.arg].st = "running"
  /\ last.open # {}

\* C13 (as claimed) - restart-browser starts the replacement with the options
\* the instance being restarted was launched with.
C13_RestartRemembers ==
  last.op = "restart" =>
    \A k \in Launches :
      (launch[k].origin = "restart" /\ launch[k].phase = "port") =>
        launch[k].opts = last.opts

\* C14 (as claimed) - no control operation ends with its error uncaught: a
\* launch that fails inside launch-browser or restart-browser is returned as
\* a tool result.
C14_ErrorsReturned ==
  last.op # "thrown"

\* C15 (as claimed) - once the 5 s timer of stop has fired, a browser that is
\* still alive has been sent SIGKILL.
C15_ForceKillAfterGrace ==
  \A k \in Launches :
    lb[k].killTimer = "fired" => (lb[k].st # "running" \/ "SIGKILL" \in lb[k].sent)

\* C16 (as claimed) - launch() settles within the readiness window: while it
\* waits for the readiness line its process is running and the 15 s timer is
\* armed, so an exit or the timer ends the wait.
C16_LaunchSettles ==
  \A k \in Launches :
    lb[k].pc = "waiting" => (lb[k].timeout = "armed" /\ lb[k].st # "exited")

\* C17 (as claimed) - when launch fails after spawning (early exit or 15 s
\* timeout) the process is dead or has been sent SIGKILL and the profile
\* directory created for the attempt has been removed.
C17_FailureReclaims ==
  \A k \in Launches :
    (lb[k].pc = "thrown" /\ lb[k].st \in {"running", "exited"}) =>
      /\ lb[k].st = "exited" \/ "SIGKILL" \in lb[k].sent
      /\ lb[k].dir = "removed"

\* C18 (as claimed) - for an established pair, once either socket has closed
\* or errored neither socket is open and neither is in the connection set.
C18_PairTornDown ==
  \A i \in Conns :
    (sock[BackendSock(i)] # "none"
       /\ (sock[ClientSock(i)] # "open" \/ sock[BackendSock(i)] # "open")) =>
      /\ sock[ClientSock(i)] # "open"
      /\ sock[BackendSock(i)] # "open"
      /\ ClientSock(i) \notin connections
      /\ BackendSock(i) \notin connections

\* C19 - when the lazy-launch callback fails every client that was waiting on
\* it is destroyed and untracked and waits no more, and the listener stays up:
\* from initialize() to shutdown() the server is listening.
C19_LazyFailDestroysWaiters ==
  /\ last.op = "lazyFail" =>
       /\ \A s \in last.open : sock[s] # "open" /\ s \notin connections
       /\ \A i \in Conns : awaits[i] # last.arg
       /\ launch[last.arg].phase = "fail"
  /\ Serving => server = "listening"

\* C19 witness: a lazy launch failed with two clients waiting on it, and the
\* listener is up.
C19_Witness ==
  /\ last.op = "lazyFail"
  /\ Cardinality(last.open) >= 2
  /\ server = "listening"

\* C20 - the single-flight guard is set exactly while a lazy launch is in
\* flight: it is cleared when the launch completes, by success or failure, so
\* a later connection with no backend starts a fresh launch.
C20_GuardCleared ==
  /\ launching = (LazyPending # {})
  /\ (launchPromise = NoLaunch) = (LazyPending = {})
  /\ launchPromise # NoLaunch => launchPromise \in LazyPending

\* C20 witness: after a failed lazy launch a later connection has started a
\* second lazy launch, which is in flight.
C20_Witness ==
  \E k1, k2 \in Launches :
    /\ k1 < k2
    /\ launch[k1].origin = "lazy" /\ launch[k1].phase = "fail"
    /\ launch[k2].origin = "lazy" /\ Pending(k2)
    /\ launchPromise = k2
    /\ \E i \in Conns : awaits[i] = k2

\* C21 - a pair's backend target is fixed when its backend socket is created:
\* while the backend socket stays open its target does not change, and a step
\* that changes the backend port without closeConnections() (the handler's
\* own assignment after a lazy launch, setBackend in initialize()) leaves
\* every open socket open and every tracked socket tracked.
C21_TargetFixed ==
  [][/\ \A i \in Conns :
          (sock[BackendSock(i)] = "open" /\ sock'[BackendSock(i)] = "open") =>
            target'[i] = target[i]
     /\ (backendPort' # backendPort /\ last'.op \notin {"swap", "stop"}) =>
          \A s \in Sockets :
            /\ sock[s] = "open" => sock'[s] = "open"
            /\ s \in connections => s \in connections']_vars

\* C21 witness: a lazy launch has just moved the backend port while an
\* established pair, connected to the earlier backend, is still open.
C21_Witness ==
  /\ last.op = "lazyOk"
  /\ \E i \in Conns :
       /\ sock[ClientSock(i)] = "open"
       /\ sock[BackendSock(i)] = "open"
       /\ BackendSock(i) \notin last.open
       /\ target[i] # NoPort
       /\ target[i] # backendPort

\* C22 - byte transparency: in each direction of a pair the bytes delivered
\* are, in order and unmodified, the bytes written (a prefix of them at any
\* moment, the rest being buffered while the pair is open), bytes the client
\* wrote before the backend connection was established included.
C22_ByteTransparency ==
  /\ IsPrefix(pipe.up.recv, pipe.up.sent)
  /\ IsPrefix(pipe.down.recv, pipe.down.sent)
  /\ pipe.pc # "closed" =>
       /\ pipe.up.recv \o pipe.up.buf = pipe.up.sent
       /\ pipe.down.recv \o pipe.down.buf = pipe.down.sent

\* C22 witness: the backend has received two different bytes, the first
\* written before the backend was connected, and the client one byte.
C22_Witness ==
  /\ pipe.early >= 1
  /\ Len(pipe.up.recv) = 2
  /\ pipe.up.recv[1] # pipe.up.recv[2]
  /\ Len(pipe.down.recv) >= 1

\* C23 - the rendezvous record is written once, by initialize(), and removed
\* once, by shutdown(): from the end of startup to the end of shutdown the
\* file holds the same {port, pid}, whatever launch-browser, stop-browser,
\* restart-browser, lazy launches and backend switches have done, and outside
\* that span there is no file.
Count(e) == Cardinality({n \in 1..Len(trace) : trace[n] = e})
C23_RecordStable ==
  /\ Count("writeState") = (IF initPc = "done" THEN 1 ELSE 0)
  /\ Count("clearState") = (IF shutPc = "done" THEN 1 ELSE 0)
  /\ (initPc = "done" /\ shutPc # "done") =>
       stateFile = [exists |-> TRUE, port |-> ProxyPort, pid |-> Pid]
  /\ (initPc # "done" \/ shutPc = "done") => stateFile = Absent

\* C23 witness: launch-browser, restart-browser and stop-browser have all
\* run, the backend has been set and cleared, and the record is as written.
C23_Witness ==
  /\ last.op = "stop"
  /\ last.arg # NoLaunch
  /\ \E k \in Launches : launch[k].origin = "restart" /\ launch[k].phase = "ok"
  /\ \E k \in Launches : launch[k].origin = "launch" /\ launch[k].phase = "ok"
  /\ backendPort = NoPort
  /\ stateFile = [exists |-> TRUE, port |-> ProxyPort, pid |-> Pid]

\* C24 - rendezvous round trip: readState() after writeState(r) returns r;
\* after clearState(), and when there is no file, it returns none; for a file
\* that is not valid JSON or lacks a numeric port or pid it returns none, and
\* for any other way of writing the two numeric fields it returns them.
C24_RoundTrip ==
  file.read =>
    /\ file.op.name \in {"write", "foreign"} => file.got = file.op.expect
    /\ file.op.name \in {"clear", "none"} => file.got = None

\* C24 witness: a record with a five-digit port and a one-digit pid has been
\* written over a malformed file and read back.
C24_Witness ==
  /\ file.read
  /\ file.op.name = "write"
  /\ file.got = Some(ProxyPort, 7)
  /\ file.content # <<>>

\* C25 - every IPC request is bounded by its timeout: while the request is
\* pending its timer is armed, and when the timer fires (no complete line has
\* arrived) the socket is destroyed and the request rejects with the timeout
\* error.
C25_RequestBounded ==
  \A a \in 1..2 :
    LET r == nav.reqs[a]
    IN  /\ r.st = "pending" => r.timer = "armed"
        /\ r.timer = "fired" =>
             /\ r.st = "rejected"
             /\ r.err = "timeout"
             /\ r.sock = "destroyed"
             /\ \A n \in 1..Len(r.data) : r.data[n] = "half"

\* C25 witness: a request timed out after part of a response had arrived.
C25_Witness ==
  \E a \in 1..2 :
    /\ nav.reqs[a].timer = "fired"
    /\ nav.reqs[a].err = "timeout"
    /\ nav.reqs[a].data # <<>>

\* C26 - a failed IPC request is retried exactly once: the second request is
\* made only after the first has failed and is made whenever it has, there
\* are at most two requests for one sendIpc(), and the caller falls back to
\* CDP only after the second has failed too.
C26_RetryOnce ==
  /\ nav.calls <= 2
  /\ nav.calls = Cardinality({a \in 1..2 : nav.reqs[a].st # "none"})
  /\ nav.reqs[2].st # "none" => nav.reqs[1].st = "rejected"
  /\ nav.reqs[1].st = "rejected" => nav.reqs[2].st # "none"
  /\ (nav.live /\ nav.cdp # "none") =>
       \A a \in 1..2 : nav.reqs[a].st = "rejected"

\* C26 witness: the first request timed out, the retry failed as well, and
\* the handler is on the CDP path.
C26_Witness ==
  /\ nav.live
  /\ nav.pc = "cdp"
  /\ nav.calls = 2
  /\ nav.reqs[1].err = "timeout"
  /\ nav.reqs[2].err \in {"closed", "error", "invalid", "timeout"}

\* C27 - discover: the workspace socket is returned when its probe succeeds;
\* otherwise the directory's socket files are probed in the order listed,
\* each one only after all before it failed, every file whose probe failed is
\* unlinked and no other, and the result is the first file whose probe
\* succeeded, or none when every probe failed.
C27_Discover ==
  LET own == disc.probes # <<>> /\ disc.pc # "specific"
               /\ disc.cwd /\ \E n \in 1..Len(disc.entries) : disc.entries[n] = 1
      skip == IF own \/ disc.pc = "specific" THEN Len(disc.probes) - disc.i ELSE 0
      scan == [n \in 1..disc.i |-> disc.probes[n + skip]]
  IN  /\ (own /\ disc.probes[1] = <<1, TRUE>>) =>
           (disc.pc = "done" /\ disc.ret = 1 /\ disc.i = 0)
      /\ Len(disc.probes) = disc.i + skip
      /\ \A n \in 1..disc.i :
           /\ scan[n][1] = disc.entries[n]
           /\ n < disc.i => ~scan[n][2]
      /\ disc.unlinked = {scan[n][1] : n \in {m \in 1..disc.i : ~scan[m][2]}}
      /\ disc.pc = "done" =>
           IF \E n \in 1..Len(disc.probes) : disc.probes[n][2]
           THEN /\ disc.probes[Len(disc.probes)] = <<disc.ret, TRUE>>
                /\ disc.ret \notin disc.unlinked
           ELSE /\ disc.ret = 0
                /\ disc.i = Len(disc.entries)
      /\ disc.pc # "done" => disc.ret = 0

\* C27 witness: the workspace socket's probe failed, the scan unlinked two
\* stale files and returned the third.
C27_Witness ==
  /\ disc.pc = "done"
  /\ disc.cwd
  /\ disc.probes # <<>>
  /\ disc.probes[1] = <<1, FALSE>>
  /\ Cardinality(disc.unlinked) = 2
  /\ disc.ret # 0

\* C28 (as claimed) - IPC server: a line that is not JSON is answered with an
\* error response and the connection is then closed.
C28_GarbledGetsError ==
  (srv.handled /\ LineKind(srv.chunks) = "garbled") =>
    (srv.out = <<"error">> /\ srv.conn = "ended")

\* C29 - navigate with the editor IPC live tries the IPC request first: the
\* CDP path is entered only after the IPC requests have failed; when a
\* request succeeds the URL is remembered and no CDP session is opened; the
\* URL is remembered in no other case, and with no IPC socket no request is
\* made.
C29_IpcFirst ==
  LET Succeeded == \E a \in 1..2 : nav.reqs[a].st = "resolved"
  IN  /\ (nav.live /\ nav.pc # "idle") => nav.reqs[1].st # "none"
      /\ nav.cdp # "none" => ~Succeeded
      /\ Succeeded =>
           (nav.pc = "done" /\ nav.result = "ipc" /\ nav.url = "url"
              /\ nav.cdp = "none")
      /\ nav.url = "url" => Succeeded
      /\ ~nav.live => nav.calls = 0

\* C29 witness: the first request failed, the retry got its response, the
\* URL is remembered and CDP was not touched.
C29_Witness ==
  /\ nav.live
  /\ nav.result = "ipc"
  /\ nav.reqs[1].st = "rejected"
  /\ nav.reqs[2].st = "resolved"
  /\ nav.url = "url"
  /\ nav.cdp = "none"

\* C30 - fetch closes its transient tab on every way out once the tab has
\* been created: when the call is over Target.closeTarget has been sent for
\* the tab (and the tab is closed unless that command failed) and the tab's
\* client is closed; no tab is created by a call that fails before
\* createTarget.
C30_TabClosed ==
  /\ fetch.pc = "done" =>
       /\ fetch.tab \in {"none", "closed", "left"}
       /\ fetch.fc \in {"none", "closed"}
       /\ (fetch.tab = "none") = (fetch.exit[1] <= 2)
  /\ fetch.pc = "closing" => fetch.fc \in {"none", "closed"}

\* C30 witness: the second call left through the origin-mismatch return and
\* its tab is closed.
C30_Witness ==
  /\ fetch.n = 2
  /\ fetch.pc = "done"
  /\ fetch.exit = <<8, "return">>
  /\ fetch.tab = "closed"

\* C31 - with the editor's IPC socket known and a CDP port advertised, the
\* lazy-launch callback returns that port and spawns nothing: a connection
\* that finds no backend is connected to the editor's port, the backend
\* becomes that port, and no launch and no process is started.
C31_EditorNoSpawn ==
  [][\A i \in Conns :
       (/\ vsCodeEnv.ipc /\ vsCodeEnv.cdpPort # NoPort
        /\ backendPort = NoPort
        /\ sock[ClientSock(i)] = "none" /\ sock'[ClientSock(i)] # "none")
       => /\ backendPort' = vsCodeEnv.cdpPort
          /\ target'[i] = vsCodeEnv.cdpPort
          /\ sock'[BackendSock(i)] = "open"
          /\ launch' = launch
          /\ proc' = proc
          /\ ~launching' /\ launchPromise' = NoLaunch]_vars

\* C31 witness: a browser launched by a tool call was stopped, and the next
\* connection was given the editor's port by the callback.
C31_Witness ==
  /\ vsCodeEnv.ipc
  /\ vsCodeEnv.cdpPort = EditorPort
  /\ \E k \in Launches : launch[k].phase = "ok"
  /\ browserInstance = NoLaunch
  /\ backendPort = EditorPort
  /\ \E i \in Conns : target[i] = EditorPort /\ IsOpen(BackendSock(i))

\* C32 (as claimed) - once wrap has spawned its child, wrap ends with the
\* child's exit status however the child ended: with the child's exit code
\* when it exited, and not with the clean status 0 when a signal ended it.
C32_ExitPropagated ==
  (wrap.pc = "exited" /\ wrap.child.st = "exited") =>
    IF wrap.child.signal = "none"
    THEN wrap.exit = wrap.child.code
    ELSE wrap.exit # 0

\* C33 (as claimed) - single ownership of the browser: every process that a
\* completed launch of the controller spawned, that is alive and has not
\* been sent a stop signal, is the controller's current instance.
C33_SingleOwner ==
  \A k \in Launches :
    (launch[k].phase = "ok" /\ proc[k].st = "running" /\ ~proc[k].killed)
      => browserInstance = k

\* C34 (as claimed) - after a launch-browser or restart-browser whose
\* relaunch failed, the proxy's backend is not the port of an instance that
\* was stopped: the next connection finds no backend (and triggers a lazy
\* launch) or a backend whose browser was not stopped.
C34_RecoversAfterFailedRelaunch ==
  last.op = "thrown" =>
    \A j \in Launches : backendPort = PortOf(j) => ~proc[j].killed

\* C35 (as claimed) - once shutdown() has completed, no browser process the
\* controller spawned is left running: every one has exited or has been
\* sent its stop signal.
C35_NoBrowserAfterShutdown ==
  shutPc = "done" =>
    \A k \in Launches : proc[k].st = "running" => proc[k].killed

\* C36 (as claimed) - when the browser the controller holds has exited on its
\* own, the proxy does not stay on the dead backend port for ever: the
\* states in which the backend is the port of the held, exited browser, no
\* launch is in flight and one can still be started, are left again.
Wedged ==
  /\ shutPc = "no"
  /\ CanLaunch
  /\ \A k \in Launches : ~Pending(k)
  /\ \E k \in Launches :
       /\ browserInstance = k
       /\ backendPort = PortOf(k)
       /\ proc[k].st = "exited" /\ ~proc[k].killed
C36_NotWedged == []<>(~Wedged)

\* C37 (as claimed) - while the instance the controller holds is a Firefox
\* (BiDi) instance the proxy has no backend, whichever path launched it.
C37_FirefoxNoBackend ==
  eng.held.engine = "firefox" => eng.backend = NoPort

\* C38 (as claimed) - discovery unlinks only socket files that have no live
\* listener: no file a server is listening on is removed.
C38_LiveSocketKept ==
  disc.unlinked \cap disc.live = {}

\* C39 (as claimed) - controller and proxy agree: while the controller serves
\* (initialized, not shutting down) and no launch is in flight, a backend
\* that is set is the internal port of the instance the controller holds or
\* the CDP port the editor advertised, and with no instance and no editor
\* port the backend is unset.
C39_BackendIsOwned ==
  (Serving /\ \A k \in Launches : ~Pending(k)) =>
    /\ backendPort # NoPort =>
         \/ browserInstance # NoLaunch /\ backendPort = PortOf(browserInstance)
         \/ vsCodeEnv.cdpPort # NoPort /\ backendPort = vsCodeEnv.cdpPort
    /\ (browserInstance = NoLaunch /\ vsCodeEnv.cdpPort = NoPort) =>
         backendPort = NoPort

\* C40 (as claimed) - no backend connection is opened for a client that was
\* destroyed or had disconnected while it waited for the lazy launch: every
\* backend socket opened when the launch resolves has an open client.
C40_NoBackendForDeadClient ==
  last.op = "lazyOk" =>
    \A i \in Conns : BackendSock(i) \in last.open => IsOpen(ClientSock(i))

====
